---- MODULE Spec2Model ----
(***************************************************************************)
(* A model of damu_1c: the Telegram notifier and the handle_error wrapper  *)
(* (src/src/notification.py), the 1C application driver                    *)
(* (src/src/utils/app.py, src/src/utils/utils.py) and the run of main over *)
(* the contracts of the database (src/src/main.py).                        *)
(*                                                                         *)
(* Each component has its own variables and its own specification; the     *)
(* variables of the other components stay at their idle values.            *)
(***************************************************************************)
EXTENDS Integers, Sequences, FiniteSets, TLC

VARIABLES
    \* ---- TelegramAPI (notification.py) ----
    pending_messages,   \* TelegramAPI.pending_messages: a list of texts
    session,            \* generation of TelegramAPI.session (reload_session replaces it)
    lastPost,           \* the last HTTP request posted to the Bot API
    nPosts,             \* number of HTTP requests posted so far
    ops,                \* number of top-level notifier operations started
    \* ---- handle_error.wrapper (notification.py) ----
    hPc,                \* position inside the wrapper
    hBot,               \* how the call was given its notifier: "none", "kw", "pos"
    hErr,               \* the exception the wrapped function raised, or "none"
    hRet,               \* the value the wrapped function returned, or "none"
    hOut,               \* what left the wrapper: [kind, val]
    hLogged,            \* logging.exception calls made by the wrapper
    hSent,              \* HTTP requests posted by this wrapper call
    \* ---- TelegramAPI.send_with_retry (notification.py) ----
    rPc,                \* position inside send_with_retry
    retry,              \* its local counter
    rMsg,               \* its message argument
    rOut,               \* what left send_with_retry: [kind, val]
    rAttempts,          \* calls of send_message made by this call
    rLast,              \* the result of the last send_message call it made
    \* ---- AppUtils.set_focus (utils/app.py) ----
    fPc,                \* position inside set_focus
    fArg,               \* the retries argument of the call
    fBackend,           \* the backend argument of the call, or "None"
    fRetries,           \* the local variable retries
    fOld,               \* the local variable old_backend
    backendName,        \* self.app.backend.name
    fAttempts,          \* the focus strategies tried by this call, in order
    fSlept,             \* seconds this call spent in sleep
    fDuring,            \* app.backend.name as each attempt saw it
    \* ---- Contract.__post_init__ (main.py) ----
    dPc,                \* "row": a database row; "built": the Contract made of it
    rawRow,             \* the date columns of the row: field -> [cal, str]
    contract,           \* the date fields of the Contract: field -> string
    typedDates,         \* the dates typed into 1C: [field, text], in order
    \* ---- main, process_contract, find_project (main.py) ----
    dbRows,             \* the rows of the contracts table, in table order
    mPc,                \* position of the run
    mExc,               \* the exception that left main, or "none"
    cur,                \* position of the loop of main in the query result
    events,             \* loads, and entries to and exits from process_contract
    ui,                 \* UI actions of the current process_contract, in order
    step,               \* position inside the current script of UI actions
    fpWait,             \* how wait_for ended in find_project
    fpRow,              \* what find_row returned in find_project
    fpPrinted,          \* "not found" lines printed by find_project
    dbCleaned,          \* DatabaseManager.clean_up has run
    \* ---- App and the 1cv8.exe processes (utils/app.py, utils/utils.py) ----
    procTable,          \* the running 1cv8.exe processes
    terminated,         \* tags of the processes that were sent terminate
    app,                \* App.app: 0 for None, else the tag of the instance
    attempt,            \* the loop index of open_app
    oaFailed,           \* attempts of this open_app call that raised
    oaLogged,           \* logging.exception calls of this open_app call
    oaKills,            \* kill_all_processes calls of this open_app call
    \* ---- InterestRate (main.py) ----
    irPc,               \* "row", "loaded", "raised" or "filled"
    irRow,              \* the interest_rates row of the contract: column -> value
    irPurpose,          \* contract.credit_purpose
    rate,               \* the InterestRate made of the row: attribute -> value
    irTyped,            \* the rates fill_contract_details typed, in order
    \* ---- DatabaseManager (utils/db_manager.py) ----
    schema,             \* the tables of the database file: name -> columns
    errRows,            \* the rows of errors: traceback "NULL" or "text"
    db0,                \* the database as it was before __enter__
    connOpen,           \* connections that are open now
    xPc,                \* position inside execute / execute_script
    xVia,               \* "execute" or "execute_script"
    xStmt,              \* the statement of the call
    xErr,               \* the error raised inside the call, or NoErr
    xTail,              \* what wrapped() still does after the yield
    xOpened,            \* connections this call opened
    xCommits,           \* conn.commit() calls of this call
    xCloses,            \* conn.close() calls of this call
    xLogged,            \* logging.error calls of this call
    xOut,               \* what left the call: [kind, type, msg]
    dmPc,               \* position of the with-statement on the manager
    dmStep,             \* index of the next statement of the current script
    dmExc,              \* the exception the body raised, or NoErr
    cleanUps,           \* calls of clean_up
    \* ---- successive runs of main (main.py) ----
    runNo,              \* the number of this run of main on the database
    dbRows0,            \* the contracts and errors tables before the first run
    \* ---- a (utils/automation.py) ----
    aPc,                \* position inside a
    winActive,          \* main_win.is_active()
    aEntryActive,       \* what is_active() returned on entry
    aFocused,           \* set_focus calls of this call
    aWaited,            \* wait calls of this call
    aRan,               \* executions of action by this call
    aRanActive,         \* whether the window was active at each execution
    aErr,               \* which callee raised: "none", "set_focus", "wait", "action"
    \* ---- wait_for (utils/automation.py) ----
    wPc,                \* position inside wait_for
    clock,              \* time()
    wStart,             \* the local variable start
    wTimeout,           \* the timeout argument
    wInterval,          \* the interval argument
    wResults,           \* what each evaluation of condition returned, in order
    wSleeps,            \* sleep calls of this call
    wSlept,             \* seconds this call asked sleep for
    wRet,               \* the returned value: "none", "True" or "False"
    \* ---- find_row (main.py) ----
    frPc,               \* "call" or "returned"
    frRows,             \* window_text() of the children of the list, in order
    frProject,          \* the project argument
    frRet,              \* the index of the returned row, 0 for None
    \* ---- send_mail (notification.py) ----
    smPc,               \* position inside send_mail
    smRecipients,       \* mail_info.recipients, a text
    smEmpty,            \* the is_empty argument
    smAttached,         \* the files attached to the message, in order
    smArchive,          \* make_archive has created the zip file
    smTo,               \* recipients_lst
    smEnvelope,         \* the to_addrs given to smtp.sendmail
    smRefused,          \* the recipients the server refused
    smAccepted,         \* the server took the message (DATA was accepted)
    smExc,              \* the exception raised inside send_mail, or "none"
    smRet,               \* the returned value: "none", "True" or "False"
    \* ---- App.open_app, App.reload (utils/app.py) ----
    rlPc,               \* position: "new", "open_app", "connect", "returned", "raised"
    rlApp,              \* self.app: 0 for None, else the instance connected to
    rlUtilsApp,         \* self.utils.app
    rlProcs,            \* the running 1cv8.exe processes
    rlAttempt,          \* passes of the loop of this open_app call that are over
    rlCall,             \* open_app calls on this App so far
    rlLaunches,         \* instances launched so far
    rlSetBy,             \* the open_app call that assigned self.app, 0 for none
    \* ---- change_sums, fill_contract_details (main.py) ----
    csPc,               \* position inside process_contract
    csContract,         \* credit_purpose, repayment_procedure and the amounts
    csShown,            \* the amounts the list of 1C shows, as text_to_float reads them
    csUi,               \* the UI actions of change_sums, in order
    csTyped,            \* what change_sums typed: the field and the value
    fdTyped,            \* the fields fill_contract_details typed, in order
    csExc,               \* the exception raised: where and about what
    \* ---- create_report, update_report (utils/utils.py) ----
    rpFile,             \* the report file: NoFile, or its rows of cells in order
    rpFile0,            \* the report file before the first call
    rpAdded,            \* the rows update_report wrote, as its callers gave them
    rpCalls,             \* update_report calls so far
    \* ---- App.find_and_click_button (utils/app.py) ----
    swPc,               \* "loop", "clicked" or "raised"
    swRect,             \* toolbar.rectangle()
    swHorizontal,       \* the horizontal argument
    swOffset,           \* the offset argument
    swStep,             \* step
    swPoint,            \* point
    swI,                \* i
    swXY,               \* x and y
    swErrors,           \* error_count
    swMouse,            \* where the last mouse.move put the pointer
    swClicks,           \* the coordinates of the left clicks, in order
    swFirst,            \* the first position probed by each sweep, in order
    swPasses,           \* evaluations of the loop condition so far
    swOnTarget          \* the last status bar text read equalled the target

botVars == <<pending_messages, session, lastPost, nPosts>>
hVars == <<hPc, hBot, hErr, hRet, hOut, hLogged, hSent>>
rVars == <<rPc, retry, rMsg, rOut, rAttempts, rLast>>
notifyVars == <<botVars, ops, hVars, rVars>>

focusVars == <<fPc, fArg, fBackend, fRetries, fOld, backendName, fAttempts,
               fSlept, fDuring>>
dateVars == <<dPc, rawRow, contract, typedDates>>

runVars == <<dbRows, mPc, mExc, cur, events, ui, step, fpWait, fpRow,
             fpPrinted, dbCleaned>>
appVars == <<procTable, terminated, app, attempt, oaFailed, oaLogged, oaKills>>
mainVars == <<runVars, appVars>>

rateVars == <<irPc, irRow, irPurpose, rate, irTyped>>
xVars == <<xPc, xVia, xStmt, xErr, xTail, xOpened, xCommits, xCloses, xLogged,
           xOut>>
dbVars == <<schema, errRows, db0, connOpen, xVars, dmPc, dmStep, dmExc,
            cleanUps>>
runsVars == <<runNo, dbRows0>>
aVars == <<aPc, winActive, aEntryActive, aFocused, aWaited, aRan, aRanActive,
           aErr>>
wVars == <<wPc, clock, wStart, wTimeout, wInterval, wResults, wSleeps, wSlept,
           wRet>>
autoVars == <<aVars, wVars>>
rowVars == <<frPc, frRows, frProject, frRet>>
mailVars == <<smPc, smRecipients, smEmpty, smAttached, smArchive, smTo,
              smEnvelope, smRefused, smAccepted, smExc, smRet>>
reloadVars == <<rlPc, rlApp, rlUtilsApp, rlProcs, rlAttempt, rlCall, rlLaunches,
                rlSetBy>>
sumsVars == <<csPc, csContract, csShown, csUi, csTyped, fdTyped, csExc>>
reportVars == <<rpFile, rpFile0, rpAdded, rpCalls>>
sweepVars == <<swPc, swRect, swHorizontal, swOffset, swStep, swPoint, swI, swXY,
               swErrors, swMouse, swClicks, swFirst, swPasses, swOnTarget>>
auxVars == <<reloadVars, sumsVars, reportVars, sweepVars>>
earlyVars == <<rateVars, dbVars, autoVars, rowVars, mailVars, runsVars>>
extRest == <<rateVars, dbVars, autoVars, rowVars, mailVars, auxVars>>
extVars == <<extRest, runsVars>>

vars == <<notifyVars, focusVars, dateVars, mainVars, extVars>>

\* What an action of one component leaves alone.
NotifyOthers == <<focusVars, dateVars, mainVars, extVars>>
FocusOthers == <<notifyVars, dateVars, mainVars, extVars>>
DateOthers == <<notifyVars, focusVars, mainVars, extVars>>
MainOthers == <<notifyVars, focusVars, dateVars, extVars>>
coreVars == <<notifyVars, focusVars, dateVars, mainVars>>
RateOthers == <<coreVars, dbVars, runsVars, autoVars, rowVars, mailVars,
              auxVars>>
DbOthers == <<coreVars, rateVars, runsVars, autoVars, rowVars, mailVars,
              auxVars>>
AutoOthers == <<coreVars, rateVars, dbVars, runsVars, rowVars, mailVars,
              auxVars>>
RowOthers == <<coreVars, rateVars, dbVars, runsVars, autoVars, mailVars,
              auxVars>>
ReloadOthers == <<coreVars, earlyVars, sumsVars, reportVars, sweepVars>>
SumsOthers == <<coreVars, earlyVars, reloadVars, reportVars, sweepVars>>
ReportOthers == <<coreVars, earlyVars, reloadVars, sumsVars, sweepVars>>
SweepOthers == <<coreVars, earlyVars, reloadVars, sumsVars, reportVars>>
MailOthers == <<coreVars, rateVars, dbVars, runsVars, autoVars, rowVars,
              auxVars>>

(***************************************************************************)
(* Bounds of the model.                                                    *)
(***************************************************************************)
MaxOps == 3
MaxRetriesArg == 3
MaxContracts == 2

(***************************************************************************)
(* TelegramAPI                                                             *)
(***************************************************************************)

\* A text is a sequence of lines; each caller message is one line.
Messages == {<<"m1">>, <<"m2">>}
Traceback == <<"tb">>

RECURSIVE Join(_)
\* "\n".join(self.pending_messages)
Join(texts) == IF texts = <<>> THEN <<>> ELSE Head(texts) \o Join(Tail(texts))

\* What one HTTP post can end in: a status code, or an exception of requests.
PostOutcomes == {"200", "204", "429", "500", "SSLError", "ConnectionError"}

NoPost == [url |-> "none", text |-> <<>>, media |-> "None", session |-> 0]
NoOut == [kind |-> "none", val |-> "none"]

\* The binding of positional arguments to send_message(message, media,
\* use_session, use_md).
SendMessageArgs(positional) ==
    [message     |-> positional[1],
     media       |-> IF Len(positional) >= 2 THEN positional[2] ELSE "None",
     use_session |-> IF Len(positional) >= 3 THEN positional[3] ELSE "True",
     use_md      |-> IF Len(positional) >= 4 THEN positional[4] ELSE "False"]

\* TelegramAPI.send_message on a bot whose pending list is `pending`, when the
\* post (if one is made) ends in `outcome`.  media is "None", "Image" (a PIL
\* image) or any other value, which has no save method.
\* Result: posted (was a request made), request, ret ("True", "False" or
\* "raise"), exc, pending (the list afterwards).
SendMessage(pending, args, sess, outcome) ==
    LET prefix == Join(pending)
        message == IF prefix # <<>> THEN prefix \o args.message ELSE args.message
        url == IF args.media = "None" THEN "sendMessage" ELSE "sendPhoto"
        request == [url |-> url, text |-> message, media |-> args.media,
                    session |-> IF args.use_session = "True" THEN sess ELSE 0]
    IN  IF args.media \notin {"None", "Image"}
        THEN \* media.save(...) on a value that is no image
             [posted |-> FALSE, request |-> NoPost, ret |-> "raise",
              exc |-> "AttributeError", pending |-> pending]
        ELSE CASE outcome = "200" ->
                   [posted |-> TRUE, request |-> request, ret |-> "True",
                    exc |-> "none", pending |-> <<>>]
               [] outcome = "204" ->
                   [posted |-> TRUE, request |-> request, ret |-> "False",
                    exc |-> "none", pending |-> pending]
               [] outcome = "429" ->
                   [posted |-> TRUE, request |-> request, ret |-> "False",
                    exc |-> "none", pending |-> Append(pending, message)]
               [] outcome \in {"500", "SSLError"} ->
                   [posted |-> TRUE, request |-> request, ret |-> "False",
                    exc |-> "none", pending |-> pending]
               [] OTHER ->
                   [posted |-> TRUE, request |-> request, ret |-> "raise",
                    exc |-> outcome, pending |-> pending]

\* The effect of one send_message call on the bot.
Sends(r) ==
    /\ pending_messages' = r.pending
    /\ lastPost' = IF r.posted THEN r.request ELSE lastPost
    /\ nPosts' = IF r.posted THEN nPosts + 1 ELSE nPosts

NotifierIdle == hPc = "idle" /\ rPc = "idle"

\* A caller sends a message itself: bot.send_message(message) or
\* bot.send_message(message, media=image).
DirectSend ==
    /\ NotifierIdle
    /\ ops < MaxOps
    /\ \E m \in Messages, media \in {"None", "Image"}, o \in PostOutcomes :
          Sends(SendMessage(pending_messages,
                            [SendMessageArgs(<<m>>) EXCEPT !.media = media],
                            session, o))
    /\ ops' = ops + 1
    /\ UNCHANGED <<session, hVars, rVars, NotifyOthers>>

(***************************************************************************)
(* handle_error                                                            *)
(***************************************************************************)

ReturnValues == {"v1", "v2"}
\* An Exception, a BaseException that is no Exception, and KeyboardInterrupt.
Exceptions == {"ValueError", "SystemExit", "KeyboardInterrupt"}

Raised(e) == [kind |-> "raise", val |-> e]
Returned(v) == [kind |-> "return", val |-> v]

\* bot = kwargs.get("bot"): the notifier the wrapper sees.
KwargsGetBot(how) == how = "kw"

\* return func(*args, **kwargs)
WrapperReturn(v) == Returned(v)

\* The wrapped function is called, with no notifier, with bot=... or with the
\* notifier among the positional arguments.
WCall ==
    /\ NotifierIdle
    /\ ops < MaxOps
    /\ \E b \in {"none", "kw", "pos"} : hBot' = b
    /\ hPc' = "running"
    /\ hErr' = "none" /\ hRet' = "none" /\ hOut' = NoOut
    /\ hLogged' = 0 /\ hSent' = 0
    /\ ops' = ops + 1
    /\ UNCHANGED <<botVars, rVars, NotifyOthers>>

WFuncReturns ==
    /\ hPc = "running"
    /\ \E v \in ReturnValues : hRet' = v /\ hOut' = WrapperReturn(v)
    /\ hPc' = "done"
    /\ UNCHANGED <<botVars, ops, hBot, hErr, hLogged, hSent, rVars, NotifyOthers>>

\* The wrapped function raises: the except clauses up to `if bot:`.
WFuncRaises ==
    /\ hPc = "running"
    /\ \E e \in Exceptions :
          /\ hErr' = e
          /\ IF e = "KeyboardInterrupt"
             THEN hOut' = Raised(e) /\ hPc' = "done" /\ hLogged' = hLogged
             ELSE /\ hLogged' = hLogged + 1
                  /\ IF KwargsGetBot(hBot)
                     THEN hPc' = "grab" /\ hOut' = hOut
                     ELSE hOut' = Raised(e) /\ hPc' = "done"
    /\ UNCHANGED <<botVars, ops, hBot, hRet, hSent, rVars, NotifyOthers>>

\* media=ImageGrab.grab(): the screen capture succeeds or raises.
WGrab ==
    /\ hPc = "grab"
    /\ \E ok \in BOOLEAN :
          IF ok THEN hPc' = "send" /\ hOut' = hOut
                ELSE hPc' = "done" /\ hOut' = Raised("OSError")
    /\ UNCHANGED <<botVars, ops, hBot, hErr, hRet, hLogged, hSent, rVars, NotifyOthers>>

\* bot.send_message(message=error_traceback, media=...); raise error
WSend ==
    /\ hPc = "send"
    /\ \E o \in PostOutcomes :
          LET r == SendMessage(pending_messages,
                               [message |-> Traceback, media |-> "Image",
                                use_session |-> "True", use_md |-> "False"],
                               session, o)
          IN  /\ Sends(r)
              /\ hSent' = IF r.posted THEN hSent + 1 ELSE hSent
              /\ hOut' = IF r.ret = "raise" THEN Raised(r.exc) ELSE Raised(hErr)
    /\ hPc' = "done"
    /\ UNCHANGED <<session, ops, hBot, hErr, hRet, hLogged, rVars, NotifyOthers>>

\* The caller has seen the outcome.
WFinish ==
    /\ hPc = "done"
    /\ hPc' = "idle" /\ hBot' = "none" /\ hErr' = "none" /\ hRet' = "none"
    /\ hOut' = NoOut /\ hLogged' = 0 /\ hSent' = 0
    /\ UNCHANGED <<botVars, ops, rVars, NotifyOthers>>

(***************************************************************************)
(* TelegramAPI.send_with_retry                                             *)
(***************************************************************************)
MaxSendRetries == 5

\* The exceptions the except clause of send_with_retry names.
RetryCaught == {"ConnectionError", "SSLError", "HTTPError"}

PyBool(b) == IF b THEN "True" ELSE "False"

RCall ==
    /\ NotifierIdle
    /\ ops < MaxOps
    /\ \E m \in Messages : rMsg' = m
    /\ rPc' = "loop" /\ retry' = 0 /\ rOut' = NoOut
    /\ rAttempts' = 0 /\ rLast' = "none"
    /\ ops' = ops + 1
    /\ UNCHANGED <<botVars, hVars, NotifyOthers>>

\* One evaluation of `while retry < 5` and of the loop body, or of the
\* `return False` after the loop.
RStep ==
    /\ rPc = "loop"
    /\ IF retry < MaxSendRetries
       THEN \E o \in PostOutcomes :
              LET use_session == PyBool(retry < MaxSendRetries)
                  r == SendMessage(pending_messages,
                                   SendMessageArgs(<<rMsg, use_session>>),
                                   session, o)
              IN  /\ Sends(r)
                  /\ rAttempts' = rAttempts + 1
                  /\ rLast' = r.ret
                  /\ IF r.ret = "raise" /\ r.exc \in RetryCaught
                     THEN /\ session' = session + 1
                          /\ retry' = retry + 1
                          /\ UNCHANGED <<rPc, rOut>>
                     ELSE /\ rOut' = IF r.ret = "raise" THEN Raised(r.exc)
                                                        ELSE Returned(r.ret)
                          /\ rPc' = "done"
                          /\ UNCHANGED <<session, retry>>
       ELSE /\ rOut' = Returned("False")
            /\ rPc' = "done"
            /\ UNCHANGED <<botVars, retry, rAttempts, rLast>>
    /\ UNCHANGED <<ops, rMsg, hVars, NotifyOthers>>

RFinish ==
    /\ rPc = "done"
    /\ rPc' = "idle" /\ retry' = 0 /\ rMsg' = <<>> /\ rOut' = NoOut
    /\ rAttempts' = 0 /\ rLast' = "none"
    /\ UNCHANGED <<botVars, ops, hVars, NotifyOthers>>

NotifyIdle ==
    /\ pending_messages = <<>> /\ session = 1 /\ lastPost = NoPost
    /\ nPosts = 0 /\ ops = 0
    /\ hPc = "idle" /\ hBot = "none" /\ hErr = "none" /\ hRet = "none"
    /\ hOut = NoOut /\ hLogged = 0 /\ hSent = 0
    /\ rPc = "idle" /\ retry = 0 /\ rMsg = <<>> /\ rOut = NoOut
    /\ rAttempts = 0 /\ rLast = "none"

(***************************************************************************)
(* AppUtils.set_focus                                                      *)
(***************************************************************************)
DefaultRetries == 20
FocusSleepSeconds == 5

RetriesArgs == (-1 .. MaxRetriesArg) \cup {DefaultRetries}
Backends == {"uia", "win32"}

\* Mutant: the win32 strategy on every attempt.
FocusStrategyAlwaysWin32(retries) == "win32"

\* if retries % 2 == 0: set_focus_win32(win) else: win.set_focus()
FocusStrategy(retries) == IF retries % 2 = 0 THEN "win32" ELSE "native"

\* Mutant: the name is not put back.
RestoreBackendNever(backend, old, name) == name

\* self.app.backend.name = old_backend, under `if backend:`
RestoreBackend(backend, old, name) == IF backend # "None" THEN old ELSE name

\* The call, up to the first test of the loop condition.
FCall ==
    /\ fPc = "idle"
    /\ \E n \in RetriesArgs, b \in Backends \cup {"None"} :
          /\ fArg' = n /\ fRetries' = n /\ fBackend' = b
          /\ fOld' = backendName
          /\ backendName' = IF b # "None" THEN b ELSE backendName
    /\ fPc' = "loop"
    /\ fAttempts' = <<>> /\ fSlept' = 0 /\ fDuring' = <<>>
    /\ UNCHANGED FocusOthers

\* One pass of `while retries > 0`: the attempt returns or raises.
FAttempt ==
    /\ fPc = "loop"
    /\ fRetries > 0
    /\ fAttempts' = Append(fAttempts, FocusStrategy(fRetries))
    /\ fDuring' = Append(fDuring, backendName)
    /\ \E raises \in BOOLEAN :
          IF raises
          THEN /\ fRetries' = fRetries - 1
               /\ fSlept' = fSlept + FocusSleepSeconds
               /\ UNCHANGED <<fPc, backendName>>
          ELSE /\ backendName' = RestoreBackend(fBackend, fOld, backendName)
               /\ fPc' = "returned"
               /\ UNCHANGED <<fRetries, fSlept>>
    /\ UNCHANGED <<fArg, fBackend, fOld, FocusOthers>>

\* The loop ended with retries <= 0: raise Exception("Failed to set focus")
FGiveUp ==
    /\ fPc = "loop"
    /\ fRetries <= 0
    /\ backendName' = RestoreBackend(fBackend, fOld, backendName)
    /\ fPc' = "raised"
    /\ UNCHANGED <<fArg, fBackend, fRetries, fOld, fAttempts, fSlept, fDuring,
                   FocusOthers>>

FFinish ==
    /\ fPc \in {"returned", "raised"}
    /\ fPc' = "idle" /\ fArg' = 0 /\ fBackend' = "None" /\ fRetries' = 0
    /\ fOld' = "none" /\ fAttempts' = <<>> /\ fSlept' = 0 /\ fDuring' = <<>>
    /\ UNCHANGED <<backendName, FocusOthers>>

FocusIdle ==
    /\ fPc = "idle" /\ fArg = 0 /\ fBackend = "None" /\ fRetries = 0
    /\ fOld = "none" /\ fAttempts = <<>> /\ fSlept = 0 /\ fDuring = <<>>

(***************************************************************************)
(* iso_to_standard and Contract.__post_init__                              *)
(***************************************************************************)

\* A string is a sequence of characters.
Digits == <<"0", "1", "2", "3", "4", "5", "6", "7", "8", "9">>
DigitVal(c) == (CHOOSE i \in 1 .. 10 : Digits[i] = c) - 1
Num2(s, i) == 10 * DigitVal(s[i]) + DigitVal(s[i + 1])
Num4(s, i) == 100 * Num2(s, i) + Num2(s, i + 2)
Pad2(n) == <<Digits[(n \div 10) + 1], Digits[(n % 10) + 1]>>
Pad4(n) == Pad2(n \div 100) \o Pad2(n % 100)

\* datetime.fromisoformat(dt), for YYYY-MM-DD[...] and YYYYMMDD[...]: the
\* calendar date of the value (the time of day plays no part below).
FromIsoFormat(dt) ==
    IF dt[5] = "-"
    THEN [y |-> Num4(dt, 1), m |-> Num2(dt, 6), d |-> Num2(dt, 9)]
    ELSE [y |-> Num4(dt, 1), m |-> Num2(dt, 5), d |-> Num2(dt, 7)]

\* Mutant: the month before the day, "%m.%d.%Y".
StrftimeMonthFirst(c) == Pad2(c.m) \o <<".">> \o Pad2(c.d) \o <<".">> \o Pad4(c.y)

\* .strftime("%d.%m.%Y")
Strftime(c) == Pad2(c.d) \o <<".">> \o Pad2(c.m) \o <<".">> \o Pad4(c.y)

\* iso_to_standard: dt[2] and dt[5] are the third and the sixth character.
IsoToStandard(dt) ==
    IF dt[3] = "." /\ dt[6] = "." THEN dt ELSE Strftime(FromIsoFormat(dt))

\* .replace(".", "")
RemoveDots(s) == SelectSeq(s, LAMBDA c : c # ".")

\* The date fields __post_init__ rewrites, and the one it leaves alone.
NormalizedFields == {"protocol_date", "vypiska_date", "ds_date", "dbz_date",
                     "start_date", "end_date"}
DateFields == NormalizedFields \cup {"decision_date"}

\* Contract(*raw_contract): the date fields after __post_init__.
PostInit(row) ==
    [f \in DateFields |->
        IF f \in NormalizedFields THEN RemoveDots(IsoToStandard(row[f].str))
                                  ELSE row[f].str]

\* The rows the model builds contracts of: calendar dates, each written in
\* one of the forms a date column can hold.
IsoDate(c) == Pad4(c.y) \o <<"-">> \o Pad2(c.m) \o <<"-">> \o Pad2(c.d)
IsoDateTime(c) == IsoDate(c) \o <<" ", "0", "9", ":", "3", "0", ":", "0", "0">>
IsoBasic(c) == Pad4(c.y) \o Pad2(c.m) \o Pad2(c.d)
Dotted(c) == Pad2(c.d) \o <<".">> \o Pad2(c.m) \o <<".">> \o Pad4(c.y)

Written(c, form) ==
    [cal |-> c, form |-> form,
     str |-> CASE form = "iso" -> IsoDate(c)
               [] form = "datetime" -> IsoDateTime(c)
               [] form = "basic" -> IsoBasic(c)
               [] OTHER -> Dotted(c)]

DateInputs ==
    { Written([y |-> 2025, m |-> 3, d |-> 14], "iso"),
      Written([y |-> 2025, m |-> 3, d |-> 14], "dotted"),
      Written([y |-> 1999, m |-> 12, d |-> 31], "datetime"),
      Written([y |-> 2000, m |-> 1, d |-> 1], "basic") }
DecisionInputs ==
    { Written([y |-> 2025, m |-> 3, d |-> 14], "iso"),
      Written([y |-> 1999, m |-> 12, d |-> 31], "dotted") }

Rows ==
    { r \in [DateFields -> DateInputs \cup DecisionInputs] :
        /\ r["decision_date"] \in DecisionInputs
        /\ \A f \in NormalizedFields : r[f] \in DateInputs }

NoContract == [f \in DateFields |-> <<>>]

\* Contract(*raw_contract) in iter_contracts
DConstruct ==
    /\ dPc = "row"
    /\ contract' = PostInit(rawRow)
    /\ dPc' = "built"
    /\ UNCHANGED <<rawRow, typedDates, DateOthers>>

\* The date fields process_contract types into 1C, in the order of its
\* steps: fill_main_project_data, change_date, fill_contract_details,
\* fill_contract and the schedule form.
TypedDateFields ==
    <<"protocol_date", "protocol_date", "protocol_date", "ds_date",
      "dbz_date", "dbz_date", "end_date", "decision_date", "ds_date",
      "start_date", "end_date">>

\* process_contract(contract, rate) types each field as the Contract holds it.
DTypeDates ==
    /\ dPc = "built"
    /\ typedDates' = [i \in 1 .. Len(TypedDateFields) |->
                         [field |-> TypedDateFields[i],
                          text |-> contract[TypedDateFields[i]]]]
    /\ dPc' = "typed"
    /\ UNCHANGED <<rawRow, contract, DateOthers>>

DateIdle ==
    /\ dPc = "idle" /\ rawRow = NoContract /\ contract = NoContract
    /\ typedDates = <<>>

(***************************************************************************)
(* kill_all_processes, App.__init__, App.open_app                          *)
(***************************************************************************)
OpenAppAttempts == 10

\* A process of the table: its tag (0 for a 1C instance that ran before the
\* run began, k for one launched for the k-th contract of the query result)
\* and whether terminating it raises AccessDenied.
Launched(k) == [tag |-> k, protected |-> FALSE]
ProcTables == {<<>>, <<[tag |-> 0, protected |-> FALSE]>>,
               <<[tag |-> 0, protected |-> TRUE]>>}

\* kill_all_processes("1cv8.exe"): terminate is sent to every process of that
\* name; a process that answers AccessDenied is skipped and goes on running.
KillAllProcesses(table) == SelectSeq(table, LAMBDA p : p.protected)
SentTerminate(table) == {table[i].tag : i \in 1 .. Len(table)}

\* Mutant: App.__init__ without kill_all_processes.
AppInitKeepsProcesses(table) == table

\* The process table after App.__init__.
AppInit(table) == KillAllProcesses(table)

\* The process table after the except clause of open_app.
OpenAppHandler(table) == KillAllProcesses(table)

\* The instances the run launched that are running.
OwnInstances(table) == SelectSeq(table, LAMBDA p : p.tag > 0)

\* Mutant: one pass too many.
OpenAppMayTryOneMore(i) == i <= OpenAppAttempts

\* for _ in range(10): is there another pass.
OpenAppMayTry(i) == i < OpenAppAttempts

\* The variables of the run that the steps of App leave alone.
runRest == <<dbRows, mExc, cur, events, ui, step, fpWait, fpRow, fpPrinted,
             dbCleaned>>

\* except (Exception, BaseException): logging.exception(err);
\* kill_all_processes("1cv8.exe"); continue
OFails ==
    /\ procTable' = OpenAppHandler(procTable)
    /\ terminated' = terminated \cup SentTerminate(procTable)
    /\ oaFailed' = oaFailed + 1
    /\ oaLogged' = oaLogged + 1
    /\ oaKills' = oaKills + 1
    /\ attempt' = attempt + 1
    /\ mPc' = "open_app"
    /\ UNCHANGED app

\* os.startfile(self.app_path): the instance is launched, or the call raises.
OLaunch ==
    /\ mPc = "open_app"
    /\ OpenAppMayTry(attempt)
    /\ \E ok \in BOOLEAN :
          IF ok
          THEN /\ procTable' = Append(procTable, Launched(cur))
               /\ mPc' = "connect"
               /\ UNCHANGED <<terminated, app, attempt, oaFailed, oaLogged, oaKills>>
          ELSE OFails
    /\ UNCHANGED <<runRest, MainOthers>>

\* pywinauto.Application(backend="uia").connect(path=...): the connection is
\* made (self.app, self.utils.app; break) or the call raises.
OConnect ==
    /\ mPc = "connect"
    /\ \E ok \in BOOLEAN :
          IF ok
          THEN /\ app' = cur
               /\ mPc' = "opened"
               /\ UNCHANGED <<procTable, terminated, attempt, oaFailed, oaLogged,
                              oaKills>>
          ELSE OFails
    /\ UNCHANGED <<runRest, MainOthers>>

\* The loop ran out: assert self.app is not None
OExhausted ==
    /\ mPc = "open_app"
    /\ ~OpenAppMayTry(attempt)
    /\ IF app = 0
       THEN mPc' = "crashed" /\ mExc' = "AssertionError"
       ELSE mPc' = "opened" /\ mExc' = mExc
    /\ UNCHANGED <<dbRows, cur, events, ui, step, fpWait, fpRow, fpPrinted,
                   dbCleaned, appVars, MainOthers>>

(***************************************************************************)
(* Contract.iter_contracts, main                                           *)
(***************************************************************************)

\* A row of contracts: is dbz_id set, is there an errors row with a traceback
\* for it, is project set, is there an interest_rates row for it.
RowKinds ==
    { [dbz |-> TRUE,  err |-> FALSE, project |-> TRUE,  rate |-> TRUE,
       nullErr |-> FALSE],
      [dbz |-> FALSE, err |-> FALSE, project |-> TRUE,  rate |-> TRUE,
       nullErr |-> FALSE],
      [dbz |-> TRUE,  err |-> TRUE,  project |-> TRUE,  rate |-> TRUE,
       nullErr |-> FALSE],
      [dbz |-> TRUE,  err |-> FALSE, project |-> FALSE, rate |-> TRUE,
       nullErr |-> FALSE],
      [dbz |-> TRUE,  err |-> FALSE, project |-> TRUE,  rate |-> FALSE,
       nullErr |-> FALSE],
      [dbz |-> TRUE,  err |-> FALSE, project |-> TRUE,  rate |-> TRUE,
       nullErr |-> TRUE] }

Tables == UNION {[1 .. n -> RowKinds] : n \in 0 .. MaxContracts}

\* The query of iter_contracts: WHERE dbz_id IS NOT NULL AND id NOT IN
\* (SELECT id FROM errors WHERE traceback IS NOT NULL)
IterContracts(rows) == SelectSeq(rows, LAMBDA r : r.dbz /\ ~r.err)

\* The id column of the same query: the table positions of its rows.
IterIds(rows) ==
    SelectSeq([i \in 1 .. Len(rows) |-> i],
              LAMBDA i : rows[i].dbz /\ ~rows[i].err)

CleanUpAllErrors(rows) ==
    [i \in 1 .. Len(rows) |->
        [rows[i] EXCEPT !.nullErr = FALSE, !.err = FALSE]]

\* clean_up: DELETE FROM errors WHERE traceback IS NULL
CleanUp(rows) ==
    [i \in 1 .. Len(rows) |-> [rows[i] EXCEPT !.nullErr = FALSE]]

\* Mutant: the loop skips every other contract.
NextContractSkips(i) == i + 2

\* for contract in Contract.iter_contracts(db): the position after `i`.
NextContract(i) == i + 1

CrashSkipsContract(e) == mPc' = "iter" /\ mExc' = e

\* An exception that nothing in main catches.
Crash(e) == mPc' = "crashed" /\ mExc' = e

\* with DatabaseManager(database) as db: (prepare_tables)
MEnter ==
    /\ mPc = "start"
    /\ mPc' = "iter"
    /\ UNCHANGED <<runRest, appVars, MainOthers>>

\* One pass of the loop head: the generator yields the next contract, which
\* is skipped when its project is None, or is exhausted, and then
\* DatabaseManager.__exit__ runs clean_up.
MNext ==
    /\ mPc = "iter"
    /\ LET result == IterContracts(dbRows)
           k == NextContract(cur)
       IN  IF k > Len(result)
           THEN /\ mPc' = "done"
                /\ dbCleaned' = TRUE
                /\ dbRows' = CleanUp(dbRows)
                /\ UNCHANGED cur
           ELSE /\ cur' = k
                /\ mPc' = IF result[k].project THEN "load" ELSE "iter"
                /\ UNCHANGED <<dbRows, dbCleaned>>
    /\ UNCHANGED <<mExc, events, ui, step, fpWait, fpRow, fpPrinted,
                   appVars, MainOthers>>

\* rate = InterestRate.load(db, contract.contract_id): raw_rate[0]
MLoad ==
    /\ mPc = "load"
    /\ events' = Append(events, <<"load", cur>>)
    /\ IF IterContracts(dbRows)[cur].rate
       THEN mPc' = "process" /\ mExc' = mExc
       ELSE Crash("IndexError")
    /\ UNCHANGED <<dbRows, cur, ui, step, fpWait, fpRow, fpPrinted, dbCleaned,
                   appVars, MainOthers>>

\* process_contract is entered: App(app_path=...) and the start of __enter__.
MProcess ==
    /\ mPc = "process"
    /\ events' = Append(events, <<"begin", cur>>)
    /\ procTable' = AppInit(procTable)
    /\ terminated' = terminated \cup SentTerminate(procTable)
    /\ app' = 0
    /\ attempt' = 0 /\ oaFailed' = 0 /\ oaLogged' = 0 /\ oaKills' = 0
    /\ ui' = <<>> /\ step' = 1
    /\ fpWait' = "none" /\ fpRow' = "none" /\ fpPrinted' = 0
    /\ mPc' = "open_app"
    /\ UNCHANGED <<dbRows, mExc, cur, dbCleaned, MainOthers>>

\* win.wait(wait_for="exists", timeout=20)
MWinWait ==
    /\ mPc = "opened"
    /\ attempt' = 0 /\ oaFailed' = 0 /\ oaLogged' = 0 /\ oaKills' = 0
    /\ \E ok \in BOOLEAN :
          IF ok THEN mPc' = "fp_pre" /\ mExc' = mExc
                ELSE Crash("TimeoutError")
    /\ UNCHANGED <<dbRows, cur, events, ui, step, fpWait, fpRow, fpPrinted,
                   dbCleaned, procTable, terminated, app, MainOthers>>

(***************************************************************************)
(* find_project                                                            *)
(***************************************************************************)

\* The UI actions of find_project up to the click on "Выполнить".
FindPre == <<"open_console", "click_query_box", "paste_query", "click_execute">>
\* Those after a row was found.
FindPost == <<"double_click_row", "click_query_box_again", "esc_query_box">>

\* The steps of process_contract after find_project.
ContractSteps == <<"fill_main_project_data", "change_date", "change_sums",
                   "add_vypiska", "check_project_type", "fill_contract",
                   "write_ds", "upload_document", "load_schedule", "submit">>

\* Mutant: no early return when the wait timed out.
AfterWaitFallsThrough(enabled) == "fp_row"

\* if not wait_for(lambda: delete_button.is_enabled() == True, timeout=10)
AfterWait(enabled) == IF enabled THEN "fp_row" ELSE "steps"
\* if not row
AfterFindRow(found) == IF found THEN "fp_post" ELSE "steps"

\* process_contract once find_project has returned.
AfterFindProject(how) == "steps"

\* One UI action of a script: it is carried out, or it raises.
Script(pc, script, after) ==
    /\ mPc = pc
    /\ ui' = Append(ui, script[step])
    /\ \E ok \in BOOLEAN :
          IF ok
          THEN /\ mExc' = mExc
               /\ IF step < Len(script)
                  THEN mPc' = pc /\ step' = step + 1
                  ELSE mPc' = after /\ step' = 1
          ELSE Crash("UiError") /\ step' = step

FPPre ==
    /\ Script("fp_pre", FindPre, "fp_wait")
    /\ UNCHANGED <<dbRows, cur, events, fpWait, fpRow, fpPrinted, dbCleaned,
                   appVars, MainOthers>>

\* wait_for(..., timeout=10): the Delete button became enabled, or not.
FPWait ==
    /\ mPc = "fp_wait"
    /\ \E enabled \in BOOLEAN :
          /\ fpWait' = IF enabled THEN "enabled" ELSE "timeout"
          /\ mPc' = AfterWait(enabled)
          /\ fpPrinted' = IF enabled THEN fpPrinted ELSE fpPrinted + 1
    /\ UNCHANGED <<dbRows, mExc, cur, events, ui, step, fpRow, dbCleaned,
                   appVars, MainOthers>>

\* row = find_row(...): a row, or None.
FPFindRow ==
    /\ mPc = "fp_row"
    /\ \E found \in BOOLEAN :
          /\ fpRow' = IF found THEN "row" ELSE "None"
          /\ mPc' = AfterFindRow(found)
          /\ fpPrinted' = IF found THEN fpPrinted ELSE fpPrinted + 1
    /\ UNCHANGED <<dbRows, mExc, cur, events, ui, step, fpWait, dbCleaned,
                   appVars, MainOthers>>

FPPost ==
    /\ Script("fp_post", FindPost, "fp_close")
    /\ UNCHANGED <<dbRows, cur, events, fpWait, fpRow, fpPrinted, dbCleaned,
                   appVars, MainOthers>>

\* if close_button.exists(): a(top_win, lambda: close_button.click_input())
FPClose ==
    /\ mPc = "fp_close"
    /\ \E exists \in BOOLEAN, ok \in BOOLEAN :
          /\ ui' = IF exists THEN Append(ui, "click_close") ELSE ui
          /\ IF exists /\ ~ok
             THEN Crash("UiError")
             ELSE mPc' = AfterFindProject("found") /\ mExc' = mExc
    /\ UNCHANGED <<dbRows, cur, events, step, fpWait, fpRow, fpPrinted,
                   dbCleaned, appVars, MainOthers>>

(***************************************************************************)
(* process_contract after find_project                                     *)
(***************************************************************************)
PCSteps ==
    /\ Script("steps", ContractSteps, "exit")
    /\ UNCHANGED <<dbRows, cur, events, fpWait, fpRow, fpPrinted, dbCleaned,
                   appVars, MainOthers>>

\* App.__exit__ (pass): process_contract returns.
PCExit ==
    /\ mPc = "exit"
    /\ events' = Append(events, <<"end", cur>>)
    /\ mPc' = "iter"
    /\ UNCHANGED <<dbRows, mExc, cur, ui, step, fpWait, fpRow, fpPrinted,
                   dbCleaned, appVars, MainOthers>>

MaxRuns == 2

\* main is started again on the database the previous run left; the 1C
\* processes of that run are whatever it left running.
MRerun ==
    /\ mPc = "done" /\ runNo < MaxRuns
    /\ runNo' = runNo + 1
    /\ mPc' = "start" /\ mExc' = "none" /\ cur' = 0
    /\ events' = <<>> /\ ui' = <<>> /\ step' = 1
    /\ fpWait' = "none" /\ fpRow' = "none" /\ fpPrinted' = 0
    /\ dbCleaned' = FALSE
    /\ app' = 0 /\ attempt' = 0 /\ oaFailed' = 0 /\ oaLogged' = 0 /\ oaKills' = 0
    /\ UNCHANGED <<dbRows, procTable, terminated, dbRows0, notifyVars,
                   focusVars, dateVars, extRest>>

RunsIdle == runNo = 0 /\ dbRows0 = <<>>

MainIdle ==
    /\ dbRows = <<>> /\ mPc = "idle" /\ mExc = "none" /\ cur = 0
    /\ events = <<>> /\ ui = <<>> /\ step = 1
    /\ fpWait = "none" /\ fpRow = "none" /\ fpPrinted = 0 /\ dbCleaned = FALSE
    /\ procTable = <<>> /\ terminated = {} /\ app = 0 /\ attempt = 0
    /\ oaFailed = 0 /\ oaLogged = 0 /\ oaKills = 0

(***************************************************************************)
(* InterestRate (main.py): the row of interest_rates, the object made of   *)
(* it and the rates fill_contract_details types.  A column holds <<>> for  *)
(* NULL or <<v>>; a rate v counts hundredths of the unit the table uses.   *)
(***************************************************************************)
\* The columns InterestRate.load selects, in the order of the SELECT.
InterestRateSelect ==
    <<"id", "subsid_term", "nominal_rate", "rate_one_two_three_year",
      "rate_four_year", "rate_five_year", "rate_six_seven_year",
      "rate_fee_one_two_three_year", "rate_fee_four_year",
      "rate_fee_five_year", "rate_fee_six_seven_year",
      "start_date_one_two_three_year", "end_date_one_two_three_year",
      "start_date_four_year", "end_date_four_year",
      "start_date_five_year", "end_date_five_year",
      "start_date_six_seven_year", "end_date_six_seven_year">>

\* The fields of the dataclass, in the order of its declaration.
InterestRateAttrs ==
    <<"contract_id">> \o Tail(InterestRateSelect)

\* The fields __post_init__ multiplies.
RateFields ==
    {"nominal_rate", "rate_one_two_three_year", "rate_four_year",
     "rate_five_year", "rate_six_seven_year", "rate_fee_one_two_three_year",
     "rate_fee_four_year", "rate_fee_five_year", "rate_fee_six_seven_year"}

Range(seq) == {seq[i] : i \in 1 .. Len(seq)}

StoredRates == {<<>>, <<5>>, <<725>>}

\* Rows of interest_rates: every rate column is drawn, the others are fixed.
InterestRateRows ==
    {[c \in Range(InterestRateSelect) |->
        IF c \in RateFields THEN r[c]
        ELSE IF c = "subsid_term" THEN <<36>> ELSE <<c>>] :
     r \in [RateFields -> StoredRates]}

CreditPurposes == {"working_capital", "investment"}

\* InterestRate(*raw_rate[0]): the i-th selected column is the i-th field.
InterestRateArgs(row) ==
    [a \in Range(InterestRateAttrs) |->
        row[InterestRateSelect[CHOOSE i \in 1 .. Len(InterestRateAttrs) :
                                   InterestRateAttrs[i] = a]]]

ScaleRateTwice(v) == (v * 100) * 100

\* self.<field> *= 100
ScaleRate(v) == v * 100

\* __post_init__ raises TypeError at the first rate that is None.
PostInitRaises(obj) == \E f \in RateFields : obj[f] = <<>>

InterestRatePostInit(obj) ==
    [a \in DOMAIN obj |->
        IF a \in RateFields THEN <<ScaleRate(obj[a][1])>> ELSE obj[a]]

NoRate == [a \in Range(InterestRateAttrs) |-> <<>>]

\* InterestRate.load for a contract that has a row.
IRLoad ==
    /\ irPc = "row"
    /\ LET obj == InterestRateArgs(irRow)
       IN IF PostInitRaises(obj)
          THEN irPc' = "raised" /\ rate' = NoRate
          ELSE irPc' = "loaded" /\ rate' = InterestRatePostInit(obj)
    /\ UNCHANGED <<irRow, irPurpose, irTyped, RateOthers>>

\* fill_contract_details: the nominal rate, and for a working-capital loan
\* the fee rate of years one to three, are typed as the object holds them.
IRFill ==
    /\ irPc = "loaded"
    /\ irPc' = "filled"
    /\ irTyped' = <<rate["nominal_rate"]>> \o
                  (IF irPurpose = "working_capital"
                   THEN <<rate["rate_fee_one_two_three_year"]>> ELSE <<>>)
    /\ UNCHANGED <<irRow, irPurpose, rate, RateOthers>>

RateIdle ==
    /\ irPc = "idle" /\ irRow = NoRate /\ irPurpose = "none"
    /\ rate = NoRate /\ irTyped = <<>>

CoreIdle ==
    NotifyIdle /\ FocusIdle /\ backendName = "uia" /\ DateIdle /\ MainIdle

(***************************************************************************)
(* DatabaseManager (utils/db_manager.py): connect, execute,                *)
(* execute_script, prepare_tables, clean_up and the with-statement of      *)
(* main on the manager.                                                    *)
(***************************************************************************)
TableNames == {"banks", "contracts", "interest_rates", "macros", "errors"}

\* The columns of each CREATE TABLE IF NOT EXISTS of prepare_tables.
CreatedColumns(t) ==
    CASE t = "banks" -> {"bank_id", "bank", "year_count"}
      [] t = "contracts" ->
            {"id", "modified", "ds_id", "ds_date", "file_name", "contragent",
             "sed_number", "protocol_id", "protocol_date", "start_date",
             "end_date", "loan_amount", "subsid_amount", "investment_amount",
             "pos_amount", "vypiska_date", "iban", "df", "credit_purpose",
             "repayment_procedure", "dbz_id", "dbz_date", "request_number",
             "project_id", "project", "customer", "customer_id", "bank_id"}
      [] t = "interest_rates" ->
            {"id", "modified"} \cup Range(Tail(InterestRateSelect))
      [] t = "macros" -> {"id", "modified", "macro", "shifted_macro", "df"}
      [] t = "errors" -> {"id", "modified", "traceback", "human_readable"}

\* The columns iter_contracts selects from contracts, in order.
IterContractsSelect ==
    <<"id", "contragent", "project", "credit_purpose", "repayment_procedure",
      "loan_amount", "subsid_amount", "investment_amount", "pos_amount",
      "protocol_date", "vypiska_date", "decision_date", "iban", "ds_id",
      "ds_date", "dbz_id", "dbz_date", "start_date", "end_date",
      "protocol_id", "sed_number", "file_name">>

\* A statement: its kind, the table it creates or changes, and the
\* <<table, column>> pairs it names.
Stmt(kind, table, refs) == [kind |-> kind, table |-> table, refs |-> refs]

Columns(t, cols) == {<<t, c>> : c \in cols}

PrepareStatements ==
    <<Stmt("pragma", "none", {}),
      Stmt("create", "banks", {}),
      Stmt("create", "contracts", {}),
      Stmt("create", "interest_rates", {}),
      Stmt("create", "macros", {}),
      Stmt("create", "errors", {})>>

\* The queries of the body of main: iter_contracts, then InterestRate.load.
BodyStatements ==
    <<Stmt("select", "contracts",
           Columns("contracts", Range(IterContractsSelect) \cup {"dbz_id"})
           \cup Columns("errors", {"id", "traceback"})),
      Stmt("select", "interest_rates",
           Columns("interest_rates", Range(InterestRateSelect)))>>

CleanUpStatements ==
    <<Stmt("delete", "errors", Columns("errors", {"traceback"})),
      Stmt("script", "none", {})>>

\* DELETE FROM errors WHERE traceback IS NULL
DeleteNullTracebacks(rows) == SelectSeq(rows, LAMBDA tb : tb # "NULL")

\* CREATE TABLE t (...) put in place of an existing table.
CreateOrReplace(s, t) ==
    [u \in DOMAIN s \cup {t} |-> IF u = t THEN CreatedColumns(t) ELSE s[u]]

\* CREATE TABLE IF NOT EXISTS t (...)
CreateIfNotExists(s, t) ==
    IF t \in DOMAIN s THEN s
    ELSE [u \in DOMAIN s \cup {t} |-> IF u = t THEN CreatedColumns(t) ELSE s[u]]

\* prepare_tables run on a database, statement by statement.
RECURSIVE RunCreates(_, _)

RunCreates(s, stmts) ==
    IF stmts = <<>> THEN s
    ELSE RunCreates(IF Head(stmts).kind = "create"
                    THEN CreateIfNotExists(s, Head(stmts).table) ELSE s,
                    Tail(stmts))

\* A table or a column the statement names and the database lacks.
Missing(s, stmt) ==
    {r \in stmt.refs : r[1] \notin DOMAIN s \/ r[2] \notin s[r[1]]}

NoErr == [type |-> "none", msg |-> "none"]
Err(type, msg) == [type |-> type, msg |-> msg]

\* The classes execute catches: sqlite3.IntegrityError, then sqlite3.Error.
DatabaseErrors == {"IntegrityError", "OperationalError"}

\* What wrapped() does once the with-body is over: commit after a body that
\* completed, and close in the finally clause.
ConnectExitLeak(ok) == IF ok THEN <<"commit", "close">> ELSE <<>>

ConnectExit(ok) == IF ok THEN <<"commit", "close">> ELSE <<"close">>

NoXOut == [kind |-> "none", type |-> "none", msg |-> "none"]

NoStmt == Stmt("none", "none", {})

DmScript(pc) ==
    CASE pc = "enter" -> PrepareStatements
      [] pc = "body" -> BodyStatements
      [] pc = "clean" -> CleanUpStatements
      [] OTHER -> <<>>

\* What can go wrong while a statement runs, whatever the statement is.
StmtErrors(stmt) ==
    {Err("OperationalError", "database is locked"),
     Err("KeyboardInterrupt", "interrupted")}
    \cup (IF stmt.kind = "delete"
          THEN {Err("IntegrityError", "constraint failed")} ELSE {})

dmRest == <<db0, dmPc, dmStep, dmExc, cleanUps>>

\* The manager calls execute or execute_script with the next statement of
\* its script; connect() opens a connection of its own, or sqlite3.connect
\* raises and there is none.
XCall ==
    /\ xPc = "idle" /\ dmPc \in {"enter", "body", "clean"}
    /\ dmStep <= Len(DmScript(dmPc))
    /\ xStmt' = DmScript(dmPc)[dmStep]
    /\ xVia' = IF xStmt'.kind = "script" THEN "execute_script" ELSE "execute"
    /\ xCommits' = 0 /\ xCloses' = 0 /\ xLogged' = 0 /\ xOut' = NoXOut
    /\ xTail' = <<>>
    /\ \E opens \in BOOLEAN :
        IF opens
        THEN /\ connOpen' = connOpen + 1 /\ xOpened' = 1
             /\ xErr' = NoErr /\ xPc' = "stmt"
        ELSE /\ connOpen' = connOpen /\ xOpened' = 0
             /\ xErr' = Err("OperationalError", "unable to open database file")
             /\ xPc' = "tail"
    /\ UNCHANGED <<schema, errRows, dmRest, DbOthers>>

\* cursor.execute / cursor.executescript inside the with-body of connect().
XStmt ==
    /\ xPc = "stmt"
    /\ \E e \in (IF Missing(schema, xStmt) # {}
                 THEN {Err("OperationalError", "no such column")}
                 ELSE {NoErr} \cup StmtErrors(xStmt)) :
        /\ xErr' = e
        /\ xTail' = ConnectExit(e = NoErr)
        /\ schema' = IF e = NoErr /\ xStmt.kind = "create"
                     THEN CreateIfNotExists(schema, xStmt.table) ELSE schema
    /\ xPc' = "tail"
    /\ UNCHANGED <<errRows, connOpen, xVia, xStmt, xOpened, xCommits, xCloses,
                   xLogged, xOut, dmRest, DbOthers>>

\* wrapped() after the yield: conn.commit() makes the deletion durable or
\* raises; conn.close() runs in the finally clause.
XTail ==
    /\ xPc = "tail" /\ xTail # <<>>
    /\ xTail' = Tail(xTail)
    /\ IF Head(xTail) = "commit"
       THEN /\ xCommits' = xCommits + 1
            /\ \E ok \in BOOLEAN :
                IF ok
                THEN /\ xErr' = xErr
                     /\ errRows' = IF xStmt.kind = "delete"
                                   THEN DeleteNullTracebacks(errRows)
                                   ELSE errRows
                ELSE /\ xErr' = Err("OperationalError", "disk I/O error")
                     /\ errRows' = errRows
            /\ UNCHANGED <<connOpen, xCloses>>
       ELSE /\ connOpen' = connOpen - 1 /\ xCloses' = xCloses + 1
            /\ UNCHANGED <<xCommits, xErr, errRows>>
    /\ UNCHANGED <<schema, xPc, xVia, xStmt, xOpened, xLogged, xOut, dmRest,
                   DbOthers>>

\* The call returns the rows, or its except clauses log a database error and
\* raise it again; execute_script has no except clause.  The manager goes
\* on with its script, or the exception leaves prepare_tables, the body or
\* clean_up.
XFinish ==
    /\ xPc = "tail" /\ xTail = <<>>
    /\ xPc' = "idle"
    /\ xLogged' = IF xVia = "execute" /\ xErr.type \in DatabaseErrors
                  THEN 1 ELSE 0
    /\ xOut' = IF xErr = NoErr
               THEN [kind |-> "return", type |-> "none", msg |-> "none"]
               ELSE [kind |-> "raise", type |-> xErr.type, msg |-> xErr.msg]
    /\ IF xErr = NoErr
       THEN /\ dmExc' = dmExc
            /\ IF dmStep = Len(DmScript(dmPc)) /\ dmPc = "enter"
               THEN dmPc' = "body" /\ dmStep' = 1
               ELSE IF dmStep = Len(DmScript(dmPc)) /\ dmPc = "clean"
                    THEN dmPc' = "done" /\ dmStep' = 1
                    ELSE dmPc' = dmPc /\ dmStep' = dmStep + 1
       ELSE /\ dmExc' = xErr
            /\ dmPc' = CASE dmPc = "body" -> "exit"
                         [] dmPc = "enter" -> "enter_raised"
                         [] dmPc = "clean" -> "clean_raised"
            /\ dmStep' = dmStep
    /\ UNCHANGED <<schema, errRows, db0, connOpen, xVia, xStmt, xErr, xTail,
                   xOpened, xCommits, xCloses, cleanUps, DbOthers>>

\* The body of the with-statement of main ends, normally or because
\* process_contract (or anything else in it) raised.
DmBodyEnds ==
    /\ dmPc = "body" /\ xPc = "idle"
    /\ \E e \in {NoErr, Err("ValueError", "process_contract")} : dmExc' = e
    /\ dmPc' = "exit"
    /\ UNCHANGED <<schema, errRows, db0, connOpen, xVars, dmStep, cleanUps,
                   DbOthers>>

\* __exit__: clean_up when exc_type is None; the return value None lets an
\* exception of the body propagate.
DmExit ==
    /\ dmPc = "exit"
    /\ IF dmExc = NoErr
       THEN dmPc' = "clean" /\ dmStep' = 1 /\ cleanUps' = cleanUps + 1
       ELSE dmPc' = "raised" /\ dmStep' = dmStep /\ cleanUps' = cleanUps
    /\ UNCHANGED <<schema, errRows, db0, connOpen, xVars, dmExc, DbOthers>>

MaxErrorRows == 2

\* Databases the run may find: any of the five tables may exist already, and
\* a contracts table made elsewhere may have the decision_date column.
InitSchemas ==
    {[t \in T |-> IF t = "contracts" /\ legacy
                  THEN CreatedColumns(t) \cup {"decision_date"}
                  ELSE CreatedColumns(t)] :
     T \in SUBSET TableNames, legacy \in BOOLEAN}

ErrorTables == UNION {[1 .. n -> {"NULL", "text"}] : n \in 0 .. MaxErrorRows}

NoDb == [schema |-> <<>>, errors |-> <<>>]

DbIdle ==
    /\ schema = <<>> /\ errRows = <<>> /\ db0 = NoDb /\ connOpen = 0
    /\ xPc = "idle" /\ xVia = "none" /\ xStmt = NoStmt /\ xErr = NoErr
    /\ xTail = <<>> /\ xOpened = 0 /\ xCommits = 0 /\ xCloses = 0
    /\ xLogged = 0 /\ xOut = NoXOut
    /\ dmPc = "idle" /\ dmStep = 1 /\ dmExc = NoErr /\ cleanUps = 0

(***************************************************************************)
(* a and wait_for (utils/automation.py).  The program has the foreground   *)
(* of the desktop to itself while a call of a is under way; between calls  *)
(* the window may be active or not.  Time is counted in whole seconds.     *)
(***************************************************************************)
AQuiet == aPc \in {"idle", "returned", "raised"}
WQuiet == wPc \in {"idle", "returned"}

NeedsFocusNever(active) == FALSE

\* if not main_win.is_active():
NeedsFocus(active) == ~active

\* a(main_win, action) is called and tests main_win.is_active().
ACall ==
    /\ AQuiet /\ WQuiet
    /\ \E active \in BOOLEAN :
        /\ winActive' = active
        /\ aEntryActive' = active
        /\ aPc' = IF NeedsFocus(active) THEN "focus" ELSE "act"
    /\ aFocused' = 0 /\ aWaited' = 0 /\ aRan' = 0 /\ aRanActive' = <<>>
    /\ aErr' = "none"
    /\ UNCHANGED <<wVars, AutoOthers>>

\* main_win.set_focus(): raises, or returns with the window active already
\* or not yet.
AFocus ==
    /\ aPc = "focus"
    /\ aFocused' = aFocused + 1
    /\ \E how \in {"raises", "active", "pending"} :
        /\ aPc' = IF how = "raises" THEN "raised" ELSE "wait"
        /\ aErr' = IF how = "raises" THEN "set_focus" ELSE aErr
        /\ winActive' = (how = "active")
    /\ UNCHANGED <<aEntryActive, aWaited, aRan, aRanActive, wVars, AutoOthers>>

\* main_win.wait(wait_for="active visible"): returns once the window is
\* active and visible, or raises TimeoutError.
AWait ==
    /\ aPc = "wait"
    /\ aWaited' = aWaited + 1
    /\ \E becomes \in {winActive, TRUE} :
        /\ winActive' = becomes
        /\ aPc' = IF becomes THEN "act" ELSE "raised"
        /\ aErr' = IF becomes THEN aErr ELSE "wait"
    /\ UNCHANGED <<aEntryActive, aFocused, aRan, aRanActive, wVars, AutoOthers>>

\* action(): returns or raises; what it does to the windows is its own.
AAct ==
    /\ aPc = "act"
    /\ aRan' = aRan + 1
    /\ aRanActive' = Append(aRanActive, winActive)
    /\ \E raises \in BOOLEAN, after \in BOOLEAN :
        /\ aPc' = IF raises THEN "raised" ELSE "returned"
        /\ aErr' = IF raises THEN "action" ELSE aErr
        /\ winActive' = after
    /\ UNCHANGED <<aEntryActive, aFocused, aWaited, wVars, AutoOthers>>

MaxTimeout == 3
MaxInterval == 2

TimedOutAtTimeout(elapsed, timeout) == elapsed >= timeout

\* if time() - start > timeout:
TimedOut(elapsed, timeout) == elapsed > timeout

\* wait_for(condition, timeout, interval) is called: start = time()
WfCall ==
    /\ wPc = "idle" /\ AQuiet
    /\ wTimeout' \in -1 .. MaxTimeout
    /\ wInterval' \in 0 .. MaxInterval
    /\ wStart' = clock
    /\ wPc' = "cond"
    /\ UNCHANGED <<clock, wResults, wSleeps, wSlept, wRet, aVars, AutoOthers>>

\* while not condition(): one evaluation; a true one ends the loop.
WfCond ==
    /\ wPc = "cond"
    /\ \E r \in BOOLEAN :
        /\ wResults' = Append(wResults, r)
        /\ wPc' = IF r THEN "returned" ELSE "check"
        /\ wRet' = IF r THEN "True" ELSE wRet
    /\ UNCHANGED <<clock, wStart, wTimeout, wInterval, wSleeps, wSlept, aVars,
                   AutoOthers>>

\* if time() - start > timeout: return False
WfCheck ==
    /\ wPc = "check"
    /\ IF TimedOut(clock - wStart, wTimeout)
       THEN wPc' = "returned" /\ wRet' = "False"
       ELSE wPc' = "sleep" /\ wRet' = wRet
    /\ UNCHANGED <<clock, wStart, wTimeout, wInterval, wResults, wSleeps,
                   wSlept, aVars, AutoOthers>>

\* sleep(interval): the clock is ahead by the interval or a second more, and
\* by a second at least.
WfSleep ==
    /\ wPc = "sleep"
    /\ wSleeps' = wSleeps + 1
    /\ wSlept' = wSlept + wInterval
    /\ \E over \in 0 .. 1 :
        /\ wInterval + over >= 1
        /\ clock' = clock + wInterval + over
    /\ wPc' = "cond"
    /\ UNCHANGED <<wStart, wTimeout, wInterval, wResults, wRet, aVars,
                   AutoOthers>>

AutoIdle ==
    /\ aPc = "idle" /\ winActive = FALSE /\ aEntryActive = FALSE
    /\ aFocused = 0 /\ aWaited = 0 /\ aRan = 0 /\ aRanActive = <<>>
    /\ aErr = "none"
    /\ wPc = "idle" /\ clock = 0 /\ wStart = 0 /\ wTimeout = 0
    /\ wInterval = 0 /\ wResults = <<>> /\ wSleeps = 0 /\ wSlept = 0
    /\ wRet = "none"

(***************************************************************************)
(* find_row (main.py) and difflib.SequenceMatcher(None, a, b).ratio() for  *)
(* texts shorter than the 200 characters at which difflib starts to discard*)
(* popular characters.  A text is a sequence of characters.                *)
(***************************************************************************)
Min(x, y) == IF x <= y THEN x ELSE y

\* find_longest_match: <<i, j, k>> with a[i .. i+k-1] = b[j .. j+k-1], the
\* longest block, of those the one that starts earliest in a, of those the
\* one that starts earliest in b; <<1, 1, 0>> when no character matches.
LongestMatch(a, b) ==
    LET blocks == {c \in (1 .. Len(a)) \X (1 .. Len(b)) \X (1 .. Min(Len(a), Len(b))) :
                      /\ c[1] + c[3] - 1 <= Len(a)
                      /\ c[2] + c[3] - 1 <= Len(b)
                      /\ SubSeq(a, c[1], c[1] + c[3] - 1) =
                         SubSeq(b, c[2], c[2] + c[3] - 1)}
    IN  IF blocks = {} THEN <<1, 1, 0>>
        ELSE CHOOSE c \in blocks :
                \A d \in blocks :
                    \/ c[3] > d[3]
                    \/ c[3] = d[3] /\ c[1] < d[1]
                    \/ c[3] = d[3] /\ c[1] = d[1] /\ c[2] <= d[2]

RECURSIVE Matches(_, _)

\* get_matching_blocks: the longest block, then the same to its left and to
\* its right; the number of matched characters.
Matches(a, b) ==
    LET m == LongestMatch(a, b)
    IN  IF m[3] = 0 THEN 0
        ELSE m[3]
             + Matches(SubSeq(a, 1, m[1] - 1), SubSeq(b, 1, m[2] - 1))
             + Matches(SubSeq(a, m[1] + m[3], Len(a)),
                       SubSeq(b, m[2] + m[3], Len(b)))

\* ratio() = 2.0 * matches / (len(a) + len(b)), as <<numerator, denominator>>;
\* 1.0 for two empty texts.
Ratio(a, b) ==
    IF Len(a) + Len(b) = 0 THEN <<1, 1>>
    ELSE <<2 * Matches(a, b), Len(a) + Len(b)>>

\* score >= 0.8
ScoreOk(score) == 5 * score[1] >= 4 * score[2]

RECURSIVE LStrip(_)

LStrip(t) == IF t # <<>> /\ Head(t) = " " THEN LStrip(Tail(t)) ELSE t

RECURSIVE RStrip(_)

RStrip(t) ==
    IF t # <<>> /\ t[Len(t)] = " " THEN RStrip(SubSeq(t, 1, Len(t) - 1)) ELSE t

\* .strip()
Strip(t) == RStrip(LStrip(t))

\* The row with the highest score of those that reach 0.8.
FindRowBest(rows, project) ==
    LET ok == {i \in 1 .. Len(rows) :
                  Strip(rows[i]) # <<>> /\ ScoreOk(Ratio(project, Strip(rows[i])))}
    IN  IF ok = {} THEN 0
        ELSE CHOOSE i \in ok :
                \A j \in ok :
                    LET si == Ratio(project, Strip(rows[i]))
                        sj == Ratio(project, Strip(rows[j]))
                    IN  \/ si[1] * sj[2] > sj[1] * si[2]
                        \/ si[1] * sj[2] = sj[1] * si[2] /\ i <= j

RECURSIVE FindRowFrom(_, _, _)

\* for row in rows: ... continue / return row; return None
FindRowFrom(rows, project, i) ==
    IF i > Len(rows) THEN 0
    ELSE LET txt == Strip(rows[i])
         IN  IF txt = <<>> THEN FindRowFrom(rows, project, i + 1)
             ELSE IF ScoreOk(Ratio(project, txt)) THEN i
             ELSE FindRowFrom(rows, project, i + 1)

FindRow(rows, project) == FindRowFrom(rows, project, 1)

MaxListRows == 3

RowTexts ==
    { <<>>, <<" ">>,
      <<"a", "b">>,
      <<"b", "a", "b">>,
      <<" ", "a", "b", "a", "b", " ">>,
      <<"a", "b", "a", "b", "b", "b">> }

Projects == { <<"a", "b", "a", "b">>, <<"a", "b", " ">> }

RowLists == UNION {[1 .. n -> RowTexts] : n \in 0 .. MaxListRows}

\* find_row(parent, project)
FRFind ==
    /\ frPc = "call"
    /\ frRet' = FindRow(frRows, frProject)
    /\ frPc' = "returned"
    /\ UNCHANGED <<frRows, frProject, RowOthers>>

RowIdle == frPc = "idle" /\ frRows = <<>> /\ frProject = <<>> /\ frRet = 0

(***************************************************************************)
(* send_mail (notification.py).  The QUIT that ends the SMTP session on    *)
(* leaving the with-block is taken to be answered with 221.                *)
(***************************************************************************)
RECURSIVE Split(_)

\* recipients.split(";")
Split(t) ==
    IF ";" \notin Range(t) THEN <<t>>
    ELSE LET i == CHOOSE k \in 1 .. Len(t) :
                     t[k] = ";" /\ \A j \in 1 .. k - 1 : t[j] # ";"
         IN  <<SubSeq(t, 1, i - 1)>> \o Split(SubSeq(t, i + 1, Len(t)))

KeepAnyRecipient(r) == TRUE

\* filter(bool, ...)
KeepRecipient(r) == r # <<>>

RecipientsList(t) == SelectSeq(Split(t), KeepRecipient)

MaxRecipientChars == 4

RecipientTexts ==
    UNION {[1 .. n -> {"a", "b", ";"}] : n \in 0 .. MaxRecipientChars}

smRest == <<smRecipients, smEmpty>>

\* The message is built: recipients_lst, and for a period that is not empty
\* the report and the archive of the screenshot folder are attached; open()
\* or make_archive may raise, and that exception leaves send_mail.
SMBuild ==
    /\ smPc = "call"
    /\ smTo' = RecipientsList(smRecipients)
    /\ \E fs \in (IF smEmpty THEN {"ok"}
                  ELSE {"ok", "report_missing", "archive_fails"}) :
        /\ smAttached' = CASE smEmpty -> <<>>
                           [] fs = "ok" -> <<"report", "screenshots.zip">>
                           [] fs = "archive_fails" -> <<"report">>
                           [] OTHER -> <<>>
        /\ smArchive' = (~smEmpty /\ fs = "ok")
        /\ smPc' = IF fs = "ok" THEN "built" ELSE "raised"
        /\ smExc' = CASE fs = "ok" -> "none"
                      [] fs = "report_missing" -> "FileNotFoundError"
                      [] OTHER -> "OSError"
    /\ UNCHANGED <<smRest, smEnvelope, smRefused, smAccepted, smRet,
                   MailOthers>>

\* smtplib.SMTP(mail_info.server, 25): connected, or an OSError that leaves
\* send_mail, or an SMTPException that the except clause turns into False.
SMConnect ==
    /\ smPc = "built"
    /\ \E how \in {"ok", "OSError", "SMTPConnectError"} :
        /\ smPc' = CASE how = "ok" -> "connected"
                     [] how = "OSError" -> "raised"
                     [] OTHER -> "returned"
        /\ smExc' = IF how = "ok" THEN "none" ELSE how
        /\ smRet' = IF how = "SMTPConnectError" THEN "False" ELSE smRet
    /\ UNCHANGED <<smRest, smAttached, smArchive, smTo, smEnvelope, smRefused,
                   smAccepted, MailOthers>>

\* smtp.sendmail(sender, recipients_lst, msg.as_string()): the server
\* refuses some of the recipients; sendmail raises SMTPRecipientsRefused
\* when it refused all of them (or there is none), or another SMTPException
\* (the sender or the data refused), and else returns the refused ones.
SMSendmail ==
    /\ smPc = "connected"
    /\ smEnvelope' = smTo
    /\ \E refused \in SUBSET Range(smTo),
          other \in {"none", "SMTPSenderRefused", "SMTPDataError"} :
        LET raised == IF other # "none" THEN other
                      ELSE IF refused = Range(smTo)
                           THEN "SMTPRecipientsRefused" ELSE "none"
        IN  /\ smRefused' = refused
            /\ smAccepted' = (raised = "none")
            /\ smExc' = raised
            /\ smRet' = IF raised = "none" /\ refused = {}
                        THEN "True" ELSE "False"
    /\ smPc' = "returned"
    /\ UNCHANGED <<smRest, smAttached, smArchive, smTo, MailOthers>>

MailIdle ==
    /\ smPc = "idle" /\ smRecipients = <<>> /\ smEmpty = FALSE
    /\ smAttached = <<>> /\ smArchive = FALSE /\ smTo = <<>>
    /\ smEnvelope = <<>> /\ smRefused = {} /\ smAccepted = FALSE
    /\ smExc = "none" /\ smRet = "none"

(***************************************************************************)
(* App.open_app called again through App.reload (utils/app.py)             *)
(***************************************************************************)

\* The reload() calls made on one App.
MaxReloads == 2

\* __enter__: self.open_app()
RlEnter ==
    /\ rlPc = "new"
    /\ rlPc' = "open_app" /\ rlAttempt' = 0 /\ rlCall' = rlCall + 1
    /\ UNCHANGED <<rlApp, rlUtilsApp, rlProcs, rlLaunches, rlSetBy, ReloadOthers>>

\* reload(): self.exit() (self.app.kill(), and kill_all_processes when it
\* returns False), then self.open_app(); self.app is not assigned.
RlReload ==
    /\ rlPc = "returned"
    /\ rlCall <= MaxReloads
    /\ \E killed \in BOOLEAN :
          rlProcs' = IF killed
                     THEN SelectSeq(rlProcs, LAMBDA p : p.tag # rlApp)
                     ELSE KillAllProcesses(rlProcs)
    /\ rlPc' = "open_app" /\ rlAttempt' = 0 /\ rlCall' = rlCall + 1
    /\ UNCHANGED <<rlApp, rlUtilsApp, rlLaunches, rlSetBy, ReloadOthers>>

\* except (Exception, BaseException): kill_all_processes; continue
RlFails ==
    /\ rlProcs' = OpenAppHandler(rlProcs)
    /\ rlAttempt' = rlAttempt + 1
    /\ rlPc' = "open_app"
    /\ UNCHANGED <<rlApp, rlUtilsApp, rlSetBy>>

\* os.startfile(self.app_path)
RlLaunch ==
    /\ rlPc = "open_app"
    /\ OpenAppMayTry(rlAttempt)
    /\ \E ok \in BOOLEAN :
          IF ok
          THEN /\ rlProcs' = Append(rlProcs, Launched(rlLaunches + 1))
               /\ rlLaunches' = rlLaunches + 1
               /\ rlPc' = "connect"
               /\ UNCHANGED <<rlApp, rlUtilsApp, rlAttempt, rlSetBy>>
          ELSE RlFails /\ UNCHANGED rlLaunches
    /\ UNCHANGED <<rlCall, ReloadOthers>>

\* self.app = pywinauto.Application(backend="uia").connect(path=...);
\* self.utils.app = self.app; break; assert; self.utils.app = self.app
RlConnect ==
    /\ rlPc = "connect"
    /\ \E ok \in BOOLEAN :
          IF ok
          THEN /\ rlApp' = rlLaunches /\ rlUtilsApp' = rlLaunches
               /\ rlSetBy' = rlCall
               /\ rlPc' = "returned"
               /\ UNCHANGED <<rlProcs, rlAttempt>>
          ELSE RlFails
    /\ UNCHANGED <<rlCall, rlLaunches, ReloadOthers>>

\* The loop ran out: assert self.app is not None; self.utils.app = self.app
RlExhausted ==
    /\ rlPc = "open_app"
    /\ ~OpenAppMayTry(rlAttempt)
    /\ IF rlApp = 0
       THEN rlPc' = "raised" /\ UNCHANGED rlUtilsApp
       ELSE rlPc' = "returned" /\ rlUtilsApp' = rlApp
    /\ UNCHANGED <<rlApp, rlProcs, rlAttempt, rlCall, rlLaunches, rlSetBy,
                   ReloadOthers>>

ReloadIdle ==
    /\ rlPc = "idle" /\ rlApp = 0 /\ rlUtilsApp = 0 /\ rlProcs = <<>>
    /\ rlAttempt = 0 /\ rlCall = 0 /\ rlLaunches = 0 /\ rlSetBy = 0

(***************************************************************************)
(* change_sums and fill_contract_details (main.py)                         *)
(***************************************************************************)

\* The largest amount of a contract or of the list.
MaxAmount == 1

Amounts == 0 .. MaxAmount

\* credit_purpose: "working_capital" stands for "Пополнение оборотных
\* средств", "investment" for "Инвестиционный", "investment_pos" for
\* "Инвестиционный + ПОС"; repayment_procedure: "annuity" for "Аннуитетный",
\* "equal_parts" for "Равными долями", "individual" for "Индивидуальный".
KnownPurposes == {"working_capital", "investment",
                  "investment_pos"}
KnownProcedures == {"annuity", "equal_parts", "individual"}
SumsContracts ==
    [credit_purpose : KnownPurposes \cup {"leasing"},
     repayment_procedure : KnownProcedures \cup {"preferential"},
     subsid_amount : Amounts, pos_amount : Amounts,
     investment_amount : Amounts]

NoSumsExc == [type |-> "none", where |-> "none", about |-> "none"]
SumsValueError(where, about) ==
    [type |-> "ValueError", where |-> where, about |-> about]

\* Mutant: change_sums without its test of credit_purpose.
PurposeKnownAlways(purpose) == TRUE

\* contract.credit_purpose in {...}, the negation of the test of change_sums
PurposeKnown(purpose) == purpose \in KnownPurposes

\* The keys change_sums sends after ENTER: {TAB 4} reaches the POS field,
\* {TAB 5} the investment field, one more {TAB} after POS the investment
\* field.
SumsKeys(c, shown) ==
    IF c.credit_purpose = "working_capital"
          /\ shown.pos # c.subsid_amount
    THEN << [field |-> "pos", value |-> c.subsid_amount] >>
    ELSE IF c.credit_purpose = "investment"
               /\ shown.investment # c.subsid_amount
    THEN << [field |-> "investment", value |-> c.subsid_amount] >>
    ELSE IF c.credit_purpose = "investment_pos"
    THEN IF shown.pos # c.pos_amount
               /\ shown.investment # c.investment_amount
         THEN << [field |-> "pos", value |-> c.pos_amount],
                 [field |-> "investment", value |-> c.investment_amount] >>
         ELSE IF shown.pos # c.pos_amount
         THEN << [field |-> "pos", value |-> c.subsid_amount] >>
         ELSE IF shown.investment # c.investment_amount
         THEN << [field |-> "investment", value |-> c.subsid_amount] >>
         ELSE <<>>
    ELSE <<>>

\* change_sums: the test of credit_purpose, then the tab, Go to, the list.
ChangeSumsOpen ==
    /\ csPc = "change_sums"
    /\ IF PurposeKnown(csContract.credit_purpose)
       THEN /\ csUi' = <<"tab", "goto", "DOWN 8 ENTER">>
            /\ csPc' = "list"
            /\ UNCHANGED csExc
       ELSE /\ csExc' = SumsValueError("change_sums", "credit_purpose")
            /\ csPc' = "raised"
            /\ UNCHANGED csUi
    /\ UNCHANGED <<csContract, csShown, csTyped, fdTyped, SumsOthers>>

\* The two amounts are read, ENTER opens the record, the keys are sent.
ChangeSumsType ==
    /\ csPc = "list"
    /\ csTyped' = SumsKeys(csContract, csShown)
    /\ csUi' = csUi \o <<"ENTER">> \o
               (IF SumsKeys(csContract, csShown) = <<>> THEN <<>> ELSE <<"keys">>)
    /\ csPc' = "record"
    /\ UNCHANGED <<csContract, csShown, fdTyped, csExc, SumsOthers>>

\* {ESC}, Yes when the button is there, {ESC}
ChangeSumsClose ==
    /\ csPc = "record"
    /\ \E yes \in BOOLEAN :
          csUi' = csUi \o <<"ESC">> \o (IF yes THEN <<"Yes">> ELSE <<>>) \o <<"ESC">>
    /\ csPc' = "fill_contract_details"
    /\ UNCHANGED <<csContract, csShown, csTyped, fdTyped, csExc, SumsOthers>>

\* The field fill_contract_details types for the credit purpose.
PurposeFields(purpose) ==
    IF purpose = "working_capital"
    THEN <<"rate_fee_one_two_three_year", "pos_amount">>
    ELSE IF purpose = "investment" THEN <<"investment_amount">>
    ELSE <<"pos_amount", "investment_amount">>

\* fill_contract_details up to the branch on credit_purpose.
FillDetailsPurpose ==
    /\ csPc = "fill_contract_details"
    /\ IF csContract.credit_purpose \in KnownPurposes
       THEN /\ fdTyped' = <<"iban", "ds_id", "ds_date", "dbz_id", "dbz_date",
                            "dbz_date", "end_date", "nominal_rate",
                            "loan_amount">>
                          \o PurposeFields(csContract.credit_purpose)
            /\ csPc' = "repayment"
            /\ UNCHANGED csExc
       ELSE /\ fdTyped' = <<"iban", "ds_id", "ds_date", "dbz_id", "dbz_date",
                            "dbz_date", "end_date", "nominal_rate",
                            "loan_amount">>
            /\ csExc' = SumsValueError("fill_contract_details", "credit_purpose")
            /\ csPc' = "raised"
    /\ UNCHANGED <<csContract, csShown, csUi, csTyped, SumsOthers>>

\* decision_date, the click on the field, the branch on repayment_procedure.
FillDetailsRepayment ==
    /\ csPc = "repayment"
    /\ fdTyped' = Append(fdTyped, "decision_date")
    /\ IF csContract.repayment_procedure \in KnownProcedures
       THEN csPc' = "done" /\ UNCHANGED csExc
       ELSE /\ csExc' = SumsValueError("fill_contract_details",
                                       "repayment_procedure")
            /\ csPc' = "raised"
    /\ UNCHANGED <<csContract, csShown, csUi, csTyped, SumsOthers>>

SumsIdle ==
    /\ csPc = "idle" /\ csContract = <<>> /\ csShown = <<>> /\ csUi = <<>>
    /\ csTyped = <<>> /\ fdTyped = <<>> /\ csExc = NoSumsExc

(***************************************************************************)
(* create_report, update_report (utils/utils.py)                           *)
(***************************************************************************)

\* The update_report calls on one report.
MaxReportCalls == 3

NoFile == [exists |-> FALSE, rows |-> <<>>]
ReportFile(rows) == [exists |-> TRUE, rows |-> rows]

\* A value of the frame is <<text>>, NaN is <<>>; a cell of the sheet is
\* <<text>> or the empty cell <<>>.
NaN == <<>>
KeyColumns == {"date", "employee", "operation", "order_number"}
ReportColumns == KeyColumns \cup {"status"}

\* What the callers pass: job.t_range.end.short, order.employee_fullname,
\* operation, order.order_number, status.
ReportRows ==
    [date : {"14.03.25"}, employee : {"Ivanov"},
     operation : {"create", "sign"}, order_number : {"", "15"},
     status : {"ok", "error"}]

\* df.to_excel(path, index=False): NaN and the empty text are written as an
\* empty cell.
ToExcel(df) ==
    [i \in 1 .. Len(df) |->
        [c \in ReportColumns |->
            IF df[i][c] = NaN \/ df[i][c] = <<"">> THEN <<>> ELSE df[i][c]]]

\* pd.read_excel(path, dtype=str, engine="calamine") with the default
\* keep_default_na: an empty cell is read as NaN, a text as itself.
ReadExcel(rows) ==
    [i \in 1 .. Len(rows) |-> [c \in ReportColumns |-> rows[i][c]]]

\* df[column] == value, on one value of the column: NaN equals nothing.
SeriesEq(v, text) == v # NaN /\ v = <<text>>

\* match_filter.any()
MatchFilter(df, row) ==
    \E i \in 1 .. Len(df) : \A c \in KeyColumns : SeriesEq(df[i][c], row[c])

\* new_row, as df.loc[len(df)] = new_row stores it
NewRow(row) == [c \in ReportColumns |-> <<row[c]>>]

\* create_report(report_file_path)
CreateReport ==
    /\ rpCalls = 0
    /\ rpFile' = IF rpFile.exists THEN rpFile ELSE ReportFile(ToExcel(<<>>))
    /\ rpCalls' = 1
    /\ UNCHANGED <<rpFile0, rpAdded, ReportOthers>>

\* update_report(order, job, operation, status)
UpdateReport ==
    /\ rpCalls \in 1 .. MaxReportCalls
    /\ rpFile.exists
    /\ \E row \in ReportRows :
          LET df == ReadExcel(rpFile.rows)
          IN  IF ~MatchFilter(df, row)
              THEN /\ rpFile' = ReportFile(ToExcel(Append(df, NewRow(row))))
                   /\ rpAdded' = Append(rpAdded, row)
              ELSE UNCHANGED <<rpFile, rpAdded>>
    /\ rpCalls' = rpCalls + 1
    /\ UNCHANGED <<rpFile0, ReportOthers>>

ReportIdle ==
    /\ rpFile = NoFile /\ rpFile0 = NoFile /\ rpAdded = <<>> /\ rpCalls = 0

(***************************************************************************)
(* App.find_and_click_button (utils/app.py)                                *)
(***************************************************************************)

\* Half the width (height) of the toolbar, in pixels.
MaxHalfWidth == 3

SweepErrorLimit == 3
SweepStepCap == 5

\* toolbar.rectangle() and its mid_point()
Rectangles ==
    {[left |-> l, top |-> t, right |-> l + 2 * w, bottom |-> t + 2 * h] :
        l \in {0, 4}, t \in {1}, w \in 1 .. MaxHalfWidth, h \in 1 .. 2}
MidPoint(r) == [x |-> (r.left + r.right) \div 2, y |-> (r.top + r.bottom) \div 2]

\* start_point and end_point
StartPoint(r, horizontal) == IF horizontal THEN r.left ELSE r.top
EndPoint(r, horizontal) == IF horizontal THEN MidPoint(r).x ELSE MidPoint(r).y

\* Mutant: the sweep counts from the screen edge.
SweepPointFromZero(start, i, by) == i * by

\* point = start_point + i * step
SweepPoint(start, i, by) == start + i * by

swRest == <<swRect, swHorizontal, swOffset>>

\* The status bar text equals the target: the loop ends, x += x_offset,
\* y += y_offset, mouse.click(button="left", coords=(x, y)).
SweepClick ==
    /\ swPc = "loop"
    /\ swOnTarget' = TRUE
    /\ swPasses' = swPasses + 1
    /\ swXY' = [x |-> swXY.x + (IF swHorizontal THEN swOffset ELSE 0),
                y |-> swXY.y + (IF swHorizontal THEN 0 ELSE swOffset)]
    /\ swClicks' = Append(swClicks, swXY')
    /\ swPc' = "clicked"
    /\ UNCHANGED <<swRest, swStep, swPoint, swI, swErrors, swMouse, swFirst,
                   SweepOthers>>

\* The text differs and point > end_point: the sweep is over.
SweepExceeded ==
    /\ swPc = "loop"
    /\ swPoint > EndPoint(swRect, swHorizontal)
    /\ swOnTarget' = FALSE
    /\ swPasses' = swPasses + 1
    /\ swPoint' = 0 /\ swI' = 0
    /\ swStep' = IF swStep > SweepStepCap THEN SweepStepCap ELSE swStep
    /\ swErrors' = swErrors + 1
    /\ swPc' = IF swErrors + 1 >= SweepErrorLimit THEN "raised" ELSE "loop"
    /\ UNCHANGED <<swRest, swXY, swMouse, swClicks, swFirst, SweepOthers>>

\* The text differs and point <= end_point: the next position is probed.
SweepProbe ==
    /\ swPc = "loop"
    /\ swPoint <= EndPoint(swRect, swHorizontal)
    /\ swOnTarget' = FALSE
    /\ swPasses' = swPasses + 1
    /\ swPoint' = SweepPoint(StartPoint(swRect, swHorizontal), swI, swStep)
    /\ swXY' = IF swHorizontal THEN [swXY EXCEPT !.x = swPoint']
                               ELSE [swXY EXCEPT !.y = swPoint']
    /\ swMouse' = swXY'
    /\ swFirst' = IF swI = 0 THEN Append(swFirst, swPoint') ELSE swFirst
    /\ swI' = swI + 1
    /\ UNCHANGED <<swPc, swRest, swStep, swErrors, swClicks, SweepOthers>>

SweepIdle ==
    /\ swPc = "idle" /\ swRect = <<>> /\ swHorizontal = FALSE /\ swOffset = 0
    /\ swStep = 0 /\ swPoint = 0 /\ swI = 0 /\ swXY = <<>> /\ swErrors = 0
    /\ swMouse = <<>> /\ swClicks = <<>> /\ swFirst = <<>> /\ swPasses = 0
    /\ swOnTarget = FALSE

AuxIdle == ReloadIdle /\ SumsIdle /\ ReportIdle /\ SweepIdle

ExtRestIdle ==
    RateIdle /\ DbIdle /\ AutoIdle /\ RowIdle /\ MailIdle /\ AuxIdle

InitMail ==
    /\ AuxIdle
    /\ CoreIdle /\ RateIdle /\ DbIdle /\ RunsIdle /\ AutoIdle /\ RowIdle
    /\ smPc = "call" /\ smRecipients \in RecipientTexts
    /\ smEmpty \in BOOLEAN
    /\ smAttached = <<>> /\ smArchive = FALSE /\ smTo = <<>>
    /\ smEnvelope = <<>> /\ smRefused = {} /\ smAccepted = FALSE
    /\ smExc = "none" /\ smRet = "none"

NextMail == SMBuild \/ SMConnect \/ SMSendmail

SpecMail == InitMail /\ [][NextMail]_vars

InitRows ==
    /\ AuxIdle
    /\ CoreIdle /\ RateIdle /\ DbIdle /\ RunsIdle /\ AutoIdle /\ MailIdle
    /\ frPc = "call" /\ frRows \in RowLists /\ frProject \in Projects
    /\ frRet = 0

NextRows == FRFind

SpecRows == InitRows /\ [][NextRows]_vars

InitAuto ==
    /\ AuxIdle
    /\ CoreIdle /\ RateIdle /\ DbIdle /\ RunsIdle /\ RowIdle /\ MailIdle
    /\ aPc = "idle" /\ winActive \in BOOLEAN /\ aEntryActive = FALSE
    /\ aFocused = 0 /\ aWaited = 0 /\ aRan = 0 /\ aRanActive = <<>>
    /\ aErr = "none"
    /\ wPc = "idle" /\ clock \in {0, 7} /\ wStart = 0 /\ wTimeout = 0
    /\ wInterval = 0 /\ wResults = <<>> /\ wSleeps = 0 /\ wSlept = 0
    /\ wRet = "none"

NextAuto ==
    \/ ACall \/ AFocus \/ AWait \/ AAct
    \/ WfCall \/ WfCond \/ WfCheck \/ WfSleep

SpecAuto == InitAuto /\ [][NextAuto]_vars

ExtIdle == ExtRestIdle /\ RunsIdle

EarlyIdle ==
    RateIdle /\ DbIdle /\ AutoIdle /\ RowIdle /\ MailIdle /\ RunsIdle

InitDb ==
    /\ AuxIdle
    /\ CoreIdle /\ RateIdle /\ RunsIdle /\ AutoIdle /\ RowIdle /\ MailIdle
    /\ schema \in InitSchemas
    /\ errRows \in ErrorTables
    /\ "errors" \notin DOMAIN schema => errRows = <<>>
    /\ db0 = [schema |-> schema, errors |-> errRows]
    /\ connOpen = 0
    /\ xPc = "idle" /\ xVia = "none" /\ xStmt = NoStmt /\ xErr = NoErr
    /\ xTail = <<>> /\ xOpened = 0 /\ xCommits = 0 /\ xCloses = 0
    /\ xLogged = 0 /\ xOut = NoXOut
    /\ dmPc = "enter" /\ dmStep = 1 /\ dmExc = NoErr /\ cleanUps = 0

NextDb == XCall \/ XStmt \/ XTail \/ XFinish \/ DmBodyEnds \/ DmExit

SpecDb == InitDb /\ [][NextDb]_vars

InitRates ==
    /\ AuxIdle
    /\ CoreIdle /\ DbIdle /\ RunsIdle /\ AutoIdle /\ RowIdle /\ MailIdle
    /\ irPc = "row" /\ irRow \in InterestRateRows
    /\ irPurpose \in CreditPurposes /\ rate = NoRate /\ irTyped = <<>>

NextRates == IRLoad \/ IRFill

SpecRates == InitRates /\ [][NextRates]_vars

ReloadOthersIdle == CoreIdle /\ EarlyIdle /\ SumsIdle /\ ReportIdle /\ SweepIdle

\* App.__init__: kill_all_processes("1cv8.exe"); self.app = None;
\* self.utils = AppUtils(app=self.app)
InitReload ==
    /\ ReloadOthersIdle
    /\ rlPc = "new" /\ rlApp = 0 /\ rlUtilsApp = 0 /\ rlProcs = AppInit(<<>>)
    /\ rlAttempt = 0 /\ rlCall = 0 /\ rlLaunches = 0 /\ rlSetBy = 0

NextReload == RlEnter \/ RlReload \/ RlLaunch \/ RlConnect \/ RlExhausted

SpecReload == InitReload /\ [][NextReload]_vars

SumsOthersIdle == CoreIdle /\ EarlyIdle /\ ReloadIdle /\ ReportIdle /\ SweepIdle

\* process_contract has called change_sums.
InitSums ==
    /\ SumsOthersIdle
    /\ csPc = "change_sums" /\ csContract \in SumsContracts
    /\ csShown \in [pos : Amounts, investment : Amounts]
    /\ csUi = <<>> /\ csTyped = <<>> /\ fdTyped = <<>> /\ csExc = NoSumsExc

NextSums ==
    \/ ChangeSumsOpen \/ ChangeSumsType \/ ChangeSumsClose
    \/ FillDetailsPurpose \/ FillDetailsRepayment

SpecSums == InitSums /\ [][NextSums]_vars

ReportOthersIdle == CoreIdle /\ EarlyIdle /\ ReloadIdle /\ SumsIdle /\ SweepIdle

\* The report file is absent, or holds the rows of an earlier day.
InitReport ==
    /\ ReportOthersIdle
    /\ rpFile \in {NoFile, ReportFile(<<>>),
                   ReportFile(ToExcel(<<NewRow([date |-> "13.03.25",
                       employee |-> "Ivanov", operation |-> "create",
                       order_number |-> "15", status |-> "ok"])>>))}
    /\ rpFile0 = rpFile /\ rpAdded = <<>> /\ rpCalls = 0

NextReport == CreateReport \/ UpdateReport

SpecReport == InitReport /\ [][NextReport]_vars

SweepOthersIdle == CoreIdle /\ EarlyIdle /\ ReloadIdle /\ SumsIdle /\ ReportIdle

\* find_and_click_button after set_focus returned: the pointer is at the
\* mid-point of the toolbar, x, y = mid_point, point = 0, error_count = 0,
\* i = 0; step > 0.
InitSweep ==
    /\ SweepOthersIdle
    /\ swPc = "loop" /\ swRect \in Rectangles /\ swHorizontal \in BOOLEAN
    /\ swOffset \in {0, 5} /\ swStep \in {1, 2, 5, 6}
    /\ swPoint = 0 /\ swI = 0 /\ swXY = MidPoint(swRect) /\ swErrors = 0
    /\ swMouse = MidPoint(swRect) /\ swClicks = <<>> /\ swFirst = <<>>
    /\ swPasses = 0 /\ swOnTarget = FALSE

NextSweep == SweepClick \/ SweepExceeded \/ SweepProbe

SpecSweep == InitSweep /\ [][NextSweep]_vars

InitNotify ==
    /\ NotifyIdle /\ FocusIdle /\ backendName = "uia" /\ DateIdle /\ MainIdle
    /\ ExtIdle

InitFocus ==
    /\ NotifyIdle /\ FocusIdle /\ backendName \in Backends /\ DateIdle
    /\ MainIdle /\ ExtIdle

NextFocus == FCall \/ FAttempt \/ FGiveUp \/ FFinish

SpecFocus == InitFocus /\ [][NextFocus]_vars

InitDates ==
    /\ NotifyIdle /\ FocusIdle /\ backendName = "uia"
    /\ dPc = "row" /\ rawRow \in Rows /\ contract = NoContract
    /\ typedDates = <<>>
    /\ MainIdle /\ ExtIdle

NextDates == DConstruct \/ DTypeDates

SpecDates == InitDates /\ [][NextDates]_vars

NextNotify ==
    \/ DirectSend
    \/ WCall \/ WFuncReturns \/ WFuncRaises \/ WGrab \/ WSend \/ WFinish
    \/ RCall \/ RStep \/ RFinish

SpecNotify == InitNotify /\ [][NextNotify]_vars

Init ==
    /\ NotifyIdle /\ FocusIdle /\ backendName = "uia" /\ DateIdle
    /\ dbRows \in Tables /\ procTable \in ProcTables
    /\ mPc = "start" /\ mExc = "none" /\ cur = 0
    /\ events = <<>> /\ ui = <<>> /\ step = 1
    /\ fpWait = "none" /\ fpRow = "none" /\ fpPrinted = 0 /\ dbCleaned = FALSE
    /\ terminated = {} /\ app = 0 /\ attempt = 0
    /\ oaFailed = 0 /\ oaLogged = 0 /\ oaKills = 0
    /\ ExtRestIdle /\ runNo = 1 /\ dbRows0 = dbRows

Next ==
    \/ MEnter \/ MNext \/ MLoad \/ MProcess
    \/ OLaunch \/ OConnect \/ OExhausted \/ MWinWait
    \/ FPPre \/ FPWait \/ FPFindRow \/ FPPost \/ FPClose
    \/ PCSteps \/ PCExit

Spec == Init /\ [][Next]_vars

NextRuns == Next \/ MRerun

SpecRuns == Init /\ [][NextRuns]_vars

(***************************************************************************)
(* The claims.                                                             *)
(***************************************************************************)
Acts(log) == {log[i] : i \in 1 .. Len(log)}

\* C1: a wrapped function that raises anything but KeyboardInterrupt is
\* logged, and whenever the call was given a notifier, positionally or by
\* keyword, exactly one message with the stack trace and a screenshot is
\* posted before the exception leaves the wrapper; with no notifier nothing
\* is posted; KeyboardInterrupt is re-raised with nothing posted; a return
\* value is returned unchanged with nothing posted.
C1_NotifiesWhenGivenBot ==
    hPc = "done" =>
      /\ hErr = "none" => hOut = Returned(hRet) /\ hSent = 0
      /\ hErr = "KeyboardInterrupt" => hOut = Raised(hErr) /\ hSent = 0
      /\ hErr \notin {"none", "KeyboardInterrupt"} =>
            /\ hLogged = 1
            /\ hBot = "none" => hSent = 0
            /\ hBot \in {"kw", "pos"} =>
                  /\ hSent = 1
                  /\ lastPost.media = "Image"
                  /\ Traceback[1] \in Acts(lastPost.text)

\* C2: the exception that leaves the wrapper is always the one the wrapped
\* function raised, also when the notification attempt itself fails.  Stated
\* for the calls whose screen capture, if one was made, did not raise.
C2_ReraisesOriginal ==
    hPc = "done" /\ hErr # "none" /\ hOut # Raised("OSError") =>
        hOut = Raised(hErr)

\* C9: send_with_retry makes at most 5 attempts and ends by returning: the
\* result of the first attempt that raised no connection, SSL or HTTP error,
\* or False after 5 attempts that all raised.
C9_BoundedRetryReturns ==
    rPc = "done" =>
      /\ rAttempts <= MaxSendRetries
      /\ rOut.kind = "return"
      /\ \/ rOut.val = rLast
         \/ rOut.val = "False" /\ rAttempts = MaxSendRetries

\* C3: find_project returns early on "not found": after a timed-out wait
\* or a find_row that found nothing it has printed the not-found line and
\* has neither double-clicked a row, nor sent ESC to the query box, nor
\* clicked Close; a row is double-clicked only after both checks passed.
C3_NotFoundReturnsEarly ==
    /\ fpWait = "timeout" \/ fpRow = "None" =>
          /\ Acts(ui) \cap (Acts(FindPost) \cup {"click_close"}) = {}
          /\ fpPrinted = 1
          /\ mPc \notin {"fp_row", "fp_post", "fp_close"}
    /\ fpWait = "timeout" => fpRow = "none"
    /\ "double_click_row" \in Acts(ui) => fpWait = "enabled" /\ fpRow = "row"
    /\ fpWait = "enabled" /\ fpRow = "row" => fpPrinted = 0

\* find_project has returned on its not-found path, no row matching.
C3_Witness == fpWait = "enabled" /\ fpRow = "None" /\ mPc = "steps"

\* C4: when find_project ended on its not-found path, process_contract
\* executes no further data entry step for that contract.
C4_NotFoundIsSkipped ==
    fpWait = "timeout" \/ fpRow = "None" =>
        Acts(ui) \cap Acts(ContractSteps) = {}

\* C5: main processes one contract at a time, in the order of the query
\* result: each load is followed by the entry to process_contract for the same
\* contract, each entry by its exit before anything else, positions only
\* grow, and no contract with a project before the current one was left out.
C5_OneContractAtATime ==
    /\ \A i \in 1 .. Len(events) :
          /\ events[i][1] = "load" /\ i > 1 =>
                events[i - 1][1] = "end" /\ events[i - 1][2] < events[i][2]
          /\ events[i][1] = "begin" => i > 1 /\ events[i - 1] = <<"load", events[i][2]>>
          /\ events[i][1] = "end" => i > 1 /\ events[i - 1] = <<"begin", events[i][2]>>
    /\ \A k \in 1 .. Len(IterContracts(dbRows)) :
          k < cur /\ IterContracts(dbRows)[k].project =>
              {<<"load", k>>, <<"begin", k>>, <<"end", k>>} \subseteq Acts(events)
    /\ mPc \in {"open_app", "connect", "opened", "fp_pre", "fp_wait", "fp_row",
                "fp_post", "fp_close", "steps", "exit"} =>
          events # <<>> /\ events[Len(events)] = <<"begin", cur>>

\* The second contract is in process_contract, after the first one left it.
C5_Witness ==
    /\ Len(events) = 5 /\ events[3] = <<"end", 1>> /\ events[5] = <<"begin", 2>>
    /\ mPc = "steps"

\* C6: at most one 1C instance launched by the run is running at any time:
\* whenever open_app is about to launch, every instance launched before has
\* been sent terminate and is gone, that of the previous contract included.
C6_OneInstance ==
    /\ Len(OwnInstances(procTable)) <= 1
    /\ mPc = "open_app" => OwnInstances(procTable) = <<>>
    /\ mPc \in {"connect", "opened"} => OwnInstances(procTable) = <<Launched(cur)>>
    /\ \A k \in 1 .. cur :
          (mPc \in {"open_app", "connect", "opened"} /\ k < cur
             /\ <<"end", k>> \in Acts(events)) => k \in terminated

\* The instance of the first contract, left running by __exit__, was
\* terminated and that of the second contract is launched.
C6_Witness ==
    /\ cur = 2 /\ mPc = "connect" /\ oaFailed = 0
    /\ <<"end", 1>> \in Acts(events) /\ 1 \in terminated
    /\ OwnInstances(procTable) = <<Launched(2)>>

\* C7: set_focus makes at most `retries` attempts, sleeps 5 seconds after
\* each failed one, alternates win32 (even remaining count) and native (odd)
\* on consecutive attempts, returns at the first attempt that does not
\* raise, and raises exactly when every attempt raised (retries <= 0: none).
C7_FocusRetries ==
    LET n == Len(fAttempts)
        most == IF fArg > 0 THEN fArg ELSE 0
    IN  /\ n <= most
        /\ \A i \in 1 .. n :
              fAttempts[i] = IF (fArg - i + 1) % 2 = 0 THEN "win32" ELSE "native"
        /\ \A i \in 1 .. n - 1 : fAttempts[i] # fAttempts[i + 1]
        /\ fPc = "loop" => fSlept = 5 * n /\ fRetries = fArg - n
        /\ fPc = "returned" => n >= 1 /\ fSlept = 5 * (n - 1)
        /\ fPc = "raised" => n = most /\ fSlept = 5 * n

\* All 20 attempts of a call with the default count raised.
C7_Witness == fPc = "raised" /\ fArg = 20 /\ Len(fAttempts) = 20

\* C8: open_app makes at most 10 attempts; each attempt that raises is
\* logged and followed by terminating every 1cv8.exe before the next one; the
\* loop stops at the first attempt that connects; a fresh App whose 10
\* attempts all failed ends in AssertionError and does not return.
C8_OpenAppBounded ==
    /\ mPc \in {"open_app", "connect", "opened"} =>
          /\ attempt = oaFailed
          /\ oaFailed <= 10
          /\ oaLogged = oaFailed /\ oaKills = oaFailed
    /\ mPc = "connect" => oaFailed < 10
    /\ mPc = "open_app" /\ oaFailed > 0 => OwnInstances(procTable) = <<>>
    /\ mPc = "opened" => app = cur /\ oaFailed < 10
    /\ mExc = "AssertionError" <=> (mPc = "crashed" /\ oaFailed = 10 /\ app = 0)
    /\ oaFailed = 10 => mPc \in {"open_app", "crashed"}

\* Ten attempts failed and the assertion ended open_app.
C8_Witness == mExc = "AssertionError" /\ oaLogged = 10 /\ oaKills = 10

\* C10: after construction each of the six date fields is the 8-character
\* DDMMYYYY string of the calendar date of its column, written as an ISO date
\* or as DD.MM.YYYY; iso_to_standard leaves DD.MM.YYYY unchanged and is
\* idempotent.
C10_DatesReformatted ==
    dPc # "idle" =>
      \A f \in NormalizedFields :
        LET c == rawRow[f].cal
            s == rawRow[f].str
        IN  /\ dPc \in {"built", "typed"} =>
                  /\ contract[f] = Pad2(c.d) \o Pad2(c.m) \o Pad4(c.y)
                  /\ Len(contract[f]) = 8
                  /\ "." \notin Acts(contract[f])
            /\ rawRow[f].form = "dotted" => IsoToStandard(s) = s
            /\ IsoToStandard(IsoToStandard(s)) = IsoToStandard(s)

\* A contract built of a row that holds an ISO date, an ISO date with a time
\* and a DD.MM.YYYY date.
C10_Witness ==
    /\ dPc = "built"
    /\ rawRow["protocol_date"].form = "iso"
    /\ rawRow["ds_date"].form = "dotted"
    /\ rawRow["end_date"].form = "datetime"
    /\ rawRow["start_date"].form = "basic"

\* C11: in a record made by InterestRate.load each of the nine rate fields is
\* 100 times the value the row stores, the contract id, the term and the
\* eight period dates are the row's, and fill_contract_details types the
\* rates as the record holds them, leaving the record as load made it.
C11_RatesScaledOnce ==
    irPc \in {"loaded", "filled"} =>
        /\ \A f \in RateFields : rate[f] = <<100 * irRow[f][1]>>
        /\ rate["contract_id"] = irRow["id"]
        /\ \A f \in Range(InterestRateAttrs) \ (RateFields \cup {"contract_id"}) :
               rate[f] = irRow[f]
        /\ irPc = "filled" =>
               /\ irTyped[1] = <<100 * irRow["nominal_rate"][1]>>
               /\ irPurpose = "working_capital" =>
                      irTyped[2] = <<100 * irRow["rate_fee_one_two_three_year"][1]>>

C11_Witness ==
    /\ irPc = "filled" /\ irPurpose = "working_capital"
    /\ irRow["nominal_rate"] = <<725>> /\ irTyped[1] = <<72500>>
    /\ irRow["rate_fee_one_two_three_year"] = <<5>> /\ irTyped[2] = <<500>>

\* C12: a call of DatabaseManager.execute opens one connection of its own
\* and closes it on every path, so none is open once the call is over; it
\* calls commit exactly when the statement ran without error; a database
\* error is logged once and the same error leaves the call, and a deletion
\* whose call raised is not in the table.
C12_ExecuteCommitsOrReraises ==
    /\ connOpen \in {0, 1}
    /\ connOpen = 1 =>
           xOpened = 1 /\ (xPc = "stmt" \/ (xPc = "tail" /\ "close" \in Range(xTail)))
    /\ (xPc = "tail" /\ "commit" \in Range(xTail)) => xErr = NoErr
    /\ (xPc = "idle" /\ xOut.kind # "none" /\ xVia = "execute") =>
           /\ connOpen = 0 /\ xOpened <= 1 /\ xCloses = xOpened
           /\ xOut.kind = "return" =>
                  xOpened = 1 /\ xCommits = 1 /\ xLogged = 0 /\ xErr = NoErr
           /\ xOut.kind = "raise" =>
                  /\ xOut.type = xErr.type /\ xOut.msg = xErr.msg
                  /\ xCommits = (IF xErr.msg = "disk I/O error" THEN 1 ELSE 0)
                  /\ xErr.type \in DatabaseErrors => xLogged = 1
                  /\ xStmt.kind = "delete" => errRows = db0.errors

C12_Witness ==
    /\ xPc = "idle" /\ xVia = "execute" /\ xStmt.kind = "delete"
    /\ xOut = [kind |-> "raise", type |-> "IntegrityError",
               msg |-> "constraint failed"]
    /\ xOpened = 1 /\ xCloses = 1 /\ xCommits = 0 /\ xLogged = 1
    /\ "NULL" \in Range(errRows)

\* C13: once __enter__ is over the five tables exist, a table that existed
\* before has the columns it had and a table that was missing has those of
\* its CREATE statement, and running prepare_tables again would change
\* nothing; no errors row is deleted before __exit__; clean_up is called
\* (once) exactly when the body raised nothing, and when it ends the errors
\* rows are those whose traceback is not NULL; when the body raised, the
\* exception leaves the with-statement and errors is as it was.
C13_EnterCreatesExitCleans ==
    /\ \A t \in DOMAIN db0.schema :
           t \in DOMAIN schema /\ schema[t] = db0.schema[t]
    /\ dmPc \in {"body", "exit", "clean", "done", "raised", "clean_raised"} =>
           /\ DOMAIN schema = TableNames
           /\ \A t \in TableNames \ DOMAIN db0.schema :
                  schema[t] = CreatedColumns(t)
           /\ RunCreates(schema, PrepareStatements) = schema
    /\ dmPc \in {"enter", "enter_raised", "body", "exit", "raised"} =>
           cleanUps = 0 /\ errRows = db0.errors
    /\ dmPc \in {"clean", "done", "clean_raised"} => cleanUps = 1
    /\ dmPc = "raised" => dmExc # NoErr
    /\ dmPc = "done" =>
           /\ dmExc = NoErr
           /\ errRows = SelectSeq(db0.errors, LAMBDA tb : tb = "text")

C13_Witness ==
    /\ dmPc = "done" /\ cleanUps = 1
    /\ "banks" \notin DOMAIN db0.schema /\ "banks" \in DOMAIN schema
    /\ "decision_date" \in schema["contracts"]
    /\ db0.errors = <<"NULL", "text">> /\ errRows = <<"text">>

\* C14: a query of iter_contracts or of InterestRate.load never fails for a
\* missing column on a table that has the columns prepare_tables creates
\* it with.
C14_SelectsCreatedColumns ==
    (xPc = "idle" /\ xStmt.kind = "select" /\ xOut.msg = "no such column") =>
        \E r \in xStmt.refs : schema[r[1]] # CreatedColumns(r[1])

\* C15: in every run, process_contract is entered at most once per contract
\* and only for contracts whose dbz_id is set, whose project is set and
\* which have no errors row with a traceback; a run that ends without an
\* exception has entered it for every such contract; and an errors row with
\* a traceback is still there in every later run.
C15_ProcessesEligibleOnce ==
    LET ids == IterIds(dbRows)
        begins == SelectSeq(events, LAMBDA e : e[1] = "begin")
        Begun == {ids[begins[i][2]] : i \in 1 .. Len(begins)}
        Eligible == {i \in 1 .. Len(dbRows0) :
                        /\ dbRows0[i].dbz /\ dbRows0[i].project
                        /\ ~dbRows0[i].err}
    IN  /\ Len(dbRows) = Len(dbRows0)
        /\ \A i \in 1 .. Len(dbRows0) : dbRows0[i].err => dbRows[i].err
        /\ Cardinality(Begun) = Len(begins)
        /\ Begun \subseteq Eligible
        /\ mPc = "done" => Begun = Eligible

C15_Witness ==
    /\ runNo = 2 /\ mPc = "done" /\ Len(dbRows0) = 2
    /\ dbRows0[1].err /\ dbRows0[2].nullErr /\ ~dbRows[2].nullErr
    /\ <<"begin", 1>> \in Acts(events)

\* C16: every date process_contract types into 1C is the eight digits
\* DDMMYYYY of the date the row holds, as Contract.__post_init__ writes them.
C16_TypedDatesNormalized ==
    \A i \in 1 .. Len(typedDates) :
        LET c == rawRow[typedDates[i].field].cal
        IN  typedDates[i].text = Pad2(c.d) \o Pad2(c.m) \o Pad4(c.y)

\* C17: a call of a executes action at most once, exactly once when the call
\* returns, and only with the main window active: a window that was not
\* active on entry was given set_focus and waited for once each before the
\* action ran, an active one neither; when set_focus or wait raised, the
\* action was not executed.
C17_ActsOnceWhenActive ==
    /\ aRan <= 1 /\ Len(aRanActive) = aRan
    /\ aPc = "returned" => aRan = 1
    /\ \A i \in 1 .. Len(aRanActive) : aRanActive[i]
    /\ aRan = 1 =>
           /\ aFocused = (IF aEntryActive THEN 0 ELSE 1)
           /\ aWaited = aFocused
    /\ aErr \in {"set_focus", "wait"} => aPc = "raised" /\ aRan = 0

C17_Witness ==
    /\ aPc = "returned" /\ ~aEntryActive /\ aFocused = 1 /\ aWaited = 1
    /\ aRan = 1 /\ aRanActive = <<TRUE>>

\* C18: wait_for evaluates condition before it returns, also with timeout 0
\* or less; it returns True exactly when its last evaluation was true, all
\* the earlier ones being false; it returns False only after a false
\* evaluation with more than timeout seconds gone since start; it sleeps
\* interval once between two consecutive evaluations; and with a clock that
\* advances it makes at most timeout + 2 evaluations.
C18_WaitForPolls ==
    LET n == Len(wResults)
    IN  /\ \A i \in 1 .. n - 1 : ~wResults[i]
        /\ wPc = "returned" =>
               /\ n >= 1
               /\ wRet = (IF wResults[n] THEN "True" ELSE "False")
               /\ wRet = "False" => clock - wStart > wTimeout
        /\ wPc \in {"check", "sleep", "returned"} => wSleeps = n - 1
        /\ wPc = "cond" => wSleeps = n
        /\ wSlept = wSleeps * wInterval
        /\ clock - wStart >= wSlept
        /\ n <= (IF wTimeout < 0 THEN 0 ELSE wTimeout) + 2

C18_Witness ==
    /\ wPc = "returned" /\ wRet = "False" /\ wTimeout = 0 /\ wInterval = 1
    /\ wResults = <<FALSE, FALSE>> /\ wSleeps = 1

\* C19: find_row returns the first row of the list whose text, stripped, is
\* not empty and has a ratio of at least 0.8 to the project; it returns None
\* exactly when the list has no such row.
C19_FirstRowThatMatches ==
    LET Good(i) == /\ Strip(frRows[i]) # <<>>
                   /\ ScoreOk(Ratio(frProject, Strip(frRows[i])))
    IN  frPc = "returned" =>
            /\ frRet \in 0 .. Len(frRows)
            /\ frRet = 0 <=> \A i \in 1 .. Len(frRows) : ~Good(i)
            /\ frRet # 0 => Good(frRet) /\ \A i \in 1 .. frRet - 1 : ~Good(i)

\* The second row is returned: the first is blank, the second has ratio 0.8
\* and the third, with ratio 1.0, comes too late.
C19_Witness ==
    /\ frPc = "returned" /\ frRet = 2
    /\ frProject = <<"a", "b", "a", "b">>
    /\ frRows = << <<" ">>, <<"a", "b", "a", "b", "b", "b">>,
                   <<" ", "a", "b", "a", "b", " ">> >>
    /\ Ratio(frProject, Strip(frRows[2])) = <<8, 10>>
    /\ Ratio(frProject, Strip(frRows[3])) = <<8, 8>>

C21_PendingHoldsRejectedMessages ==
    \A i \in 1 .. Len(pending_messages) : pending_messages[i] \in Messages

\* C22: each attempt of send_with_retry calls send_message with the message
\* as text, no media and use_session true, so that no attempt ends in the
\* AttributeError of saving a media value that is no image.
C22_AttemptsAreTextSends ==
    /\ rPc = "loop" /\ retry < MaxSendRetries =>
           LET args == SendMessageArgs(<<rMsg, PyBool(retry < MaxSendRetries)>>)
           IN  /\ args.message = rMsg
               /\ args.media = "None"
               /\ args.use_session = "True"
    /\ rOut # Raised("AttributeError")

\* C23: an exception raised by InterestRate.load or inside process_contract
\* for a contract leaves main: the run is over, with no step, no load and
\* no entry for a later contract, and clean_up has not run (the errors
\* table is as it was).
C23_FailureStopsRun ==
    /\ mExc # "none" <=> mPc = "crashed"
    /\ mPc = "crashed" =>
           /\ ~dbCleaned /\ dbRows = dbRows0
           /\ events # <<>>
           /\ events[Len(events)] \in {<<"load", cur>>, <<"begin", cur>>}
           /\ \A i \in 1 .. Len(events) : events[i][2] <= cur
           /\ ~ENABLED Next

\* InterestRate.load raised for the first of two contracts of the query;
\* an errors row without traceback is still in the table.
C23_Witness ==
    /\ mPc = "crashed" /\ mExc = "IndexError" /\ cur = 1
    /\ Len(IterContracts(dbRows)) = 2 /\ IterContracts(dbRows)[2].nullErr
    /\ events = << <<"load", 1>> >>

\* C24: whenever open_app has returned, self.app and self.utils.app are the
\* connection that this open_app call made, also when the call came from
\* reload() on an App that was connected.
C24_ReturnsOwnConnection ==
    rlPc = "returned" =>
        /\ rlApp # 0 /\ rlUtilsApp = rlApp
        /\ rlSetBy = rlCall

\* C25: a set_focus call that passes a backend leaves app.backend.name as
\* it found it, when it returns and when it raises "Failed to set focus",
\* and every attempt runs with the name equal to the requested backend.
C25_BackendNameRestored ==
    fBackend # "None" =>
        /\ fPc \in {"returned", "raised"} => backendName = fOld
        /\ fPc = "loop" => backendName = fBackend
        /\ \A i \in 1 .. Len(fDuring) : fDuring[i] = fBackend

\* A call with backend "win32" on a "uia" application raised after its
\* attempts.
C25_Witness ==
    /\ fPc = "raised" /\ fBackend = "win32" /\ fOld = "uia"
    /\ Len(fDuring) = 2 /\ backendName = "uia"

\* C26: what change_sums types into the POS field for a contract of purpose
\* "investment_pos" is pos_amount, what it types into the investment
\* field for that purpose is investment_amount, for the two single purposes
\* it is subsid_amount, and nothing is typed when the amounts shown equal
\* the contract's.
C26_TypesFieldAmount ==
    csPc \in {"record", "fill_contract_details", "repayment", "done", "raised"}
       /\ PurposeKnown(csContract.credit_purpose) =>
        /\ \A i \in 1 .. Len(csTyped) :
              csTyped[i].value =
                 IF csContract.credit_purpose = "investment_pos"
                 THEN IF csTyped[i].field = "pos"
                      THEN csContract.pos_amount
                      ELSE csContract.investment_amount
                 ELSE csContract.subsid_amount
        /\ (csContract.credit_purpose = "investment_pos"
               /\ csShown.pos = csContract.pos_amount
               /\ csShown.investment = csContract.investment_amount)
              => csTyped = <<>>
        /\ (csContract.credit_purpose = "working_capital"
               /\ csShown.pos = csContract.subsid_amount) => csTyped = <<>>
        /\ (csContract.credit_purpose = "investment"
               /\ csShown.investment = csContract.subsid_amount) => csTyped = <<>>

\* C27: for a credit_purpose outside the three known values change_sums
\* raises ValueError before any UI action of its own, so the ValueError of
\* fill_contract_details about credit_purpose is never raised inside
\* process_contract; the ValueError about repayment_procedure is raised in
\* fill_contract_details after the IBAN, DS, DBZ, date, rate and amount
\* fields were typed.
C27_UnsupportedValuesRejected ==
    LET typed == {fdTyped[i] : i \in 1 .. Len(fdTyped)}
    IN  /\ ~PurposeKnown(csContract.credit_purpose) /\ csPc # "change_sums" =>
               /\ csPc = "raised"
               /\ csExc = SumsValueError("change_sums", "credit_purpose")
               /\ csUi = <<>> /\ csTyped = <<>> /\ fdTyped = <<>>
        /\ csExc # SumsValueError("fill_contract_details", "credit_purpose")
        /\ csExc.about = "repayment_procedure" =>
               /\ csExc.where = "fill_contract_details"
               /\ csContract.repayment_procedure \notin KnownProcedures
               /\ {"iban", "ds_id", "ds_date", "dbz_id", "dbz_date", "end_date",
                   "nominal_rate", "loan_amount", "decision_date"} \subseteq typed
               /\ typed \cap {"pos_amount", "investment_amount"} # {}
        /\ csPc = "done" => /\ csContract.repayment_procedure \in KnownProcedures
                            /\ csContract.credit_purpose \in KnownPurposes

\* fill_contract_details raised for the repayment procedure of a contract
\* with both amounts, after typing twelve fields.
C27_Witness ==
    /\ csPc = "raised" /\ csExc.about = "repayment_procedure"
    /\ csContract.credit_purpose = "investment_pos" /\ Len(fdTyped) = 12

\* C29: the rows update_report added to the report have pairwise different
\* keys (date, employee, operation, order number), each with the status of
\* the first call for its key, the rows that were in the file before stay
\* first and unchanged, and create_report leaves an existing file as it is.
C29_ReportAppendOnlyNoDuplicates ==
    LET key(r) == [c \in KeyColumns |-> r[c]]
        n0 == Len(rpFile0.rows)
    IN  /\ \A i, j \in 1 .. Len(rpAdded) :
              key(rpAdded[i]) = key(rpAdded[j]) => i = j
        /\ rpFile0.exists => rpFile.exists
        /\ Len(rpFile.rows) = n0 + Len(rpAdded)
        /\ \A i \in 1 .. n0 : rpFile.rows[i] = rpFile0.rows[i]
        /\ \A i \in 1 .. Len(rpAdded) :
              rpFile.rows[n0 + i] = ToExcel(<<NewRow(rpAdded[i])>>)[1]

====
